---- MODULE Spec2Model ----
(***************************************************************************)
(* A model of notary-arweave-bundler: the verify handler (API key check,   *)
(* ANS-104 DataItem decoding, signature verification, schema validation,   *)
(* queue send), the queue, and the bundle handler (base64 decoding, bundle  *)
(* assembly, KMS signing).                                                  *)
(*                                                                         *)
(* Buffers are sequences of bytes (0..255), with the source's 0-based       *)
(* offsets shifted by one.  JavaScript strings are sequences of UTF-16      *)
(* code units.  An optional value (string | undefined) is a sequence of     *)
(* length 0 (undefined) or 1.                                               *)
(***************************************************************************)
EXTENDS Integers, Sequences, FiniteSets, TLC

VARIABLES
    envApiKey,   \* process.env.API_KEY: <<>> when unset, else <<the string>>
    envDryRun,   \* process.env.DRY_RUN: <<>> when unset, else <<the string>>
    reqNo,       \* number of requests the verify handler has been given
    event,       \* the request being handled: x-api-key, body, isBase64Encoded
    pc,          \* the verify handler's position
    buffer,      \* handler local: the decoded request bytes
    parsed,      \* handler local: parseDataItem's result
    valid,       \* handler local: isValid()'s result
    validation,  \* handler local: validateDataItem's result
    resp,        \* the handler's response, <<>> until it returns
    queue,       \* the messages in the queue, in send order
    trail,       \* history: the steps the current request went through
    bpc,         \* the bundle handler's position
    records,     \* bundle handler: event.Records of the batch being handled
    dataItems,   \* bundle handler local: the decoded blobs
    tx,          \* bundle handler local: the L1 transaction
    cachedOwner, \* kms-signer module state
    cachedKeyArn,\* kms-signer module state
    kmsLog,      \* history: the Sign calls KMS answered
    console,     \* the bundle handler's last outcome line
    posted,      \* the transactions posted to the gateway
    vin,         \* validator harness: the arguments of a validateDataItem call
    vout,        \* validator harness: its result, <<>> before the call
    edits,       \* validator harness: the number of edits made to vin
    vbefore,     \* validator harness: vin before the last edit
    vedit,       \* validator harness: the last edit, "" before the first
    pin,         \* decoder harness: the buffer given to parseDataItem
    pout,        \* decoder harness: its outcome, <<>> before the call
    pedits,      \* decoder harness: the number of edits made to pin
    ain,         \* assembler harness: the blobs given to assembleBundle
    aout,        \* assembler harness: its result, <<>> before the call
    calls,       \* the calls of the three library functions made so far
    lastIndex,   \* validate.ts: the lastIndex of each RegExp object of the module
    ownerCalls   \* the getOwnerModulus calls made so far, each with where it stands

vars ==
    <<envApiKey, envDryRun, reqNo, event, pc, buffer, parsed, valid, validation,
      resp, queue, trail, bpc, records, dataItems, tx, cachedOwner, cachedKeyArn,
      kmsLog, console, posted, vin, vout, edits, vbefore, vedit, pin, pout, pedits,
      ain, aout, calls, lastIndex, ownerCalls>>

\* Bounds of the model
MaxRequests == 1

MaxPipelineRequests == 2

MaxBatch == 2

MaxEdits == 2

MaxTags == 12

-----------------------------------------------------------------------------
(* Byte and string helpers *)

Min(a, b) == IF a < b THEN a ELSE b

Max(a, b) == IF a > b THEN a ELSE b

Pow2(k) == 2 ^ k

\* F applied to the value of v: v is computed once, whatever the number of
\* places F uses it in
Bind(v, F(_)) == CHOOSE r \in {F(x) : x \in {v}} : TRUE

\* n copies of byte b
Fill(n, b) == [i \in 1..n |-> b]

\* Buffer.subarray(start, end): offsets are clamped to [0, length], and an
\* end before the start gives the empty buffer.
subarray(buf, start, end) ==
    LET n  == Len(buf)
        s0 == IF start < 0 THEN Max(n + start, 0) ELSE Min(start, n)
        e0 == IF end < 0 THEN Max(n + end, 0) ELSE Min(end, n)
    IN  IF e0 <= s0 THEN <<>> ELSE SubSeq(buf, s0 + 1, e0)

\* The positions of s (1-based) whose element satisfies Test, in order.
Positions(s, Test(_)) ==
    SelectSeq([i \in 1..Len(s) |-> IF Test(s[i]) THEN i ELSE 0], LAMBDA x : x > 0)

IsDigit(c) == c >= 48 /\ c <= 57

IsLowerHex(c) == IsDigit(c) \/ (c >= 97 /\ c <= 102)

IsHexI(c) == IsLowerHex(c) \/ (c >= 65 /\ c <= 70)

\* Number.prototype.toString() of a non-negative integer, as code units
RECURSIVE toStringInt(_)
toStringInt(n) ==
    IF n < 10 THEN <<48 + n>> ELSE Append(toStringInt(n \div 10), 48 + (n % 10))

-----------------------------------------------------------------------------
(* String literals, as code units *)

\* "App-Name"
S_AppName ==
    <<65, 112, 112, 45, 78, 97, 109, 101>>

\* "Content-Type"
S_ContentType ==
    <<67, 111, 110, 116, 101, 110, 116, 45, 84, 121, 112, 101>>

\* "Hash"
S_Hash ==
    <<72, 97, 115, 104>>

\* "Namespace"
S_Namespace ==
    <<78, 97, 109, 101, 115, 112, 97, 99, 101>>

\* "Session-ID"
S_SessionID ==
    <<83, 101, 115, 115, 105, 111, 110, 45, 73, 68>>

\* "Sequence"
S_Sequence ==
    <<83, 101, 113, 117, 101, 110, 99, 101>>

\* "Notarized-At"
S_NotarizedAt ==
    <<78, 111, 116, 97, 114, 105, 122, 101, 100, 45, 65, 116>>

\* "Notarized-Date-UTC"
S_NotarizedDateUTC ==
    <<78, 111, 116, 97, 114, 105, 122, 101, 100, 45, 68, 97, 116, 101, 45, 85, 84, 67>>

\* "SDK-Version"
S_SDKVersion ==
    <<83, 68, 75, 45, 86, 101, 114, 115, 105, 111, 110>>

\* "agentsystems-notary"
S_agentsystems_notary ==
    <<97, 103, 101, 110, 116, 115, 121, 115, 116, 101, 109, 115, 45, 110, 111, 116, 97, 114, 121>>

\* "application/json"
S_application_json ==
    <<97, 112, 112, 108, 105, 99, 97, 116, 105, 111, 110, 47, 106, 115, 111, 110>>

\* "hash"
S_hash ==
    <<104, 97, 115, 104>>

\* "namespace"
S_namespace ==
    <<110, 97, 109, 101, 115, 112, 97, 99, 101>>

\* "notarized_at"
S_notarized_at ==
    <<110, 111, 116, 97, 114, 105, 122, 101, 100, 95, 97, 116>>

\* "sdk_version"
S_sdk_version ==
    <<115, 100, 107, 95, 118, 101, 114, 115, 105, 111, 110>>

\* "v"
S_v ==
    <<118>>

\* "1"
S_1 ==
    <<49>>

\* "dataitem"
S_dataitem ==
    <<100, 97, 116, 97, 105, 116, 101, 109>>

\* "blob"
S_blob ==
    <<98, 108, 111, 98>>

\* "list"
S_list ==
    <<108, 105, 115, 116>>

\* "true"
S_true ==
    <<116, 114, 117, 101>>

\* "false"
S_false ==
    <<102, 97, 108, 115, 101>>

\* "null"
S_null ==
    <<110, 117, 108, 108>>

-----------------------------------------------------------------------------
(* Values the clients of the model use *)

\* "9f86d081884c7d659a2feaa0c55ad015a3bf4f1b2b0b822cd15d6c15b0f00a08"
HEX_A ==
    <<57, 102, 56, 54, 100, 48, 56, 49, 56, 56, 52, 99, 55, 100, 54, 53, 57, 97, 50, 102, 101, 97, 97, 48, 99, 53, 53, 97, 100, 48, 49, 53, 97, 51, 98, 102, 52, 102, 49, 98, 50, 98, 48, 98, 56, 50, 50, 99, 100, 49, 53, 100, 54, 99, 49, 53, 98, 48, 102, 48, 48, 97, 48, 56>>

\* "2c26b46b68ffc68ff99b453c1d30413413422d706483bfa0f98a5e886266e7ae"
HEX_B ==
    <<50, 99, 50, 54, 98, 52, 54, 98, 54, 56, 102, 102, 99, 54, 56, 102, 102, 57, 57, 98, 52, 53, 51, 99, 49, 100, 51, 48, 52, 49, 51, 52, 49, 51, 52, 50, 50, 100, 55, 48, 54, 52, 56, 51, 98, 102, 97, 48, 102, 57, 56, 97, 53, 101, 56, 56, 54, 50, 54, 54, 101, 55, 97, 101>>

\* "9F86D081884C7D659A2FEAA0C55AD015A3BF4F1B2B0B822CD15D6C15B0F00A08"
HEX_UPPER ==
    <<57, 70, 56, 54, 68, 48, 56, 49, 56, 56, 52, 67, 55, 68, 54, 53, 57, 65, 50, 70, 69, 65, 65, 48, 67, 53, 53, 65, 68, 48, 49, 53, 65, 51, 66, 70, 52, 70, 49, 66, 50, 66, 48, 66, 56, 50, 50, 67, 68, 49, 53, 68, 54, 67, 49, 53, 66, 48, 70, 48, 48, 65, 48, 56>>

\* "9f86d081884c7d659a2feaa0c55ad015a3bf4f1b2b0b822cd15d6c15b0f00a0"
HEX_SHORT ==
    <<57, 102, 56, 54, 100, 48, 56, 49, 56, 56, 52, 99, 55, 100, 54, 53, 57, 97, 50, 102, 101, 97, 97, 48, 99, 53, 53, 97, 100, 48, 49, 53, 97, 51, 98, 102, 52, 102, 49, 98, 50, 98, 48, 98, 56, 50, 50, 99, 100, 49, 53, 100, 54, 99, 49, 53, 98, 48, 102, 48, 48, 97, 48>>

\* "123e4567-e89b-42d3-a456-426614174000"
UUID_A ==
    <<49, 50, 51, 101, 52, 53, 54, 55, 45, 101, 56, 57, 98, 45, 52, 50, 100, 51, 45, 97, 52, 53, 54, 45, 52, 50, 54, 54, 49, 52, 49, 55, 52, 48, 48, 48>>

\* "123E4567-E89B-42D3-A456-426614174000"
UUID_UPPER ==
    <<49, 50, 51, 69, 52, 53, 54, 55, 45, 69, 56, 57, 66, 45, 52, 50, 68, 51, 45, 65, 52, 53, 54, 45, 52, 50, 54, 54, 49, 52, 49, 55, 52, 48, 48, 48>>

\* "123e4567e89b42d3a456426614174000"
UUID_BAD ==
    <<49, 50, 51, 101, 52, 53, 54, 55, 101, 56, 57, 98, 52, 50, 100, 51, 97, 52, 53, 54, 52, 50, 54, 54, 49, 52, 49, 55, 52, 48, 48, 48>>

\* "0"
SEQ_0 ==
    <<48>>

\* "17"
SEQ_17 ==
    <<49, 55>>

\* "007"
SEQ_LEADING_ZERO ==
    <<48, 48, 55>>

\* "2024-06-01T12:34:56.789+00:00"
AT_A ==
    <<50, 48, 50, 52, 45, 48, 54, 45, 48, 49, 84, 49, 50, 58, 51, 52, 58, 53, 54, 46, 55, 56, 57, 43, 48, 48, 58, 48, 48>>

\* "2024-06-02T00:00:00Z"
AT_Z ==
    <<50, 48, 50, 52, 45, 48, 54, 45, 48, 50, 84, 48, 48, 58, 48, 48, 58, 48, 48, 90>>

\* "2024-06-01T12:34:56"
AT_NO_ZONE ==
    <<50, 48, 50, 52, 45, 48, 54, 45, 48, 49, 84, 49, 50, 58, 51, 52, 58, 53, 54>>

\* "2024-06-01"
DATE_A ==
    <<50, 48, 50, 52, 45, 48, 54, 45, 48, 49>>

\* "2024-06-02"
DATE_B ==
    <<50, 48, 50, 52, 45, 48, 54, 45, 48, 50>>

\* "2024/06/01"
DATE_BAD ==
    <<50, 48, 50, 52, 47, 48, 54, 47, 48, 49>>

\* "0.2.0"
SDK_020 ==
    <<48, 46, 50, 46, 48>>

\* "0.1.9"
SDK_019 ==
    <<48, 46, 49, 46, 57>>

\* "1.0.0"
SDK_100 ==
    <<49, 46, 48, 46, 48>>

\* "0.2.0-beta"
SDK_BETA ==
    <<48, 46, 50, 46, 48, 45, 98, 101, 116, 97>>

\* "text/plain"
S_TextPlain ==
    <<116, 101, 120, 116, 47, 112, 108, 97, 105, 110>>

\* "other-app"
S_other_app ==
    <<111, 116, 104, 101, 114, 45, 97, 112, 112>>

\* "Extra"
S_Extra ==
    <<69, 120, 116, 114, 97>>

\* "extra"
S_extra ==
    <<101, 120, 116, 114, 97>>

\* "x"
S_x ==
    <<120>>

\* "s3cret-key"
S_secret ==
    <<115, 51, 99, 114, 101, 116, 45, 107, 101, 121>>

\* "s3cret-kex"
S_secrex ==
    <<115, 51, 99, 114, 101, 116, 45, 107, 101, 120>>

\* "s3cret"
S_short ==
    <<115, 51, 99, 114, 101, 116>>

\* "s3crét-ke"
S_accent ==
    <<115, 51, 99, 114, 233, 116, 45, 107, 101>>

-----------------------------------------------------------------------------
(* Buffer <-> string conversions of the Node runtime *)

utf8Need(b0) ==
    IF b0 >= 194 /\ b0 <= 223 THEN 1
    ELSE IF b0 >= 224 /\ b0 <= 239 THEN 2
    ELSE IF b0 >= 240 /\ b0 <= 244 THEN 3
    ELSE 0

utf8Lower(b0) == IF b0 = 224 THEN 160 ELSE IF b0 = 240 THEN 144 ELSE 128

utf8Upper(b0) == IF b0 = 237 THEN 159 ELSE IF b0 = 244 THEN 143 ELSE 191

IsCont(b, p, lo, hi) == p <= Len(b) /\ b[p] >= lo /\ b[p] <= hi

\* The code units of a code point
codeUnits(cp) ==
    IF cp < 65536 THEN <<cp>>
    ELSE <<55296 + ((cp - 65536) \div 1024), 56320 + ((cp - 65536) % 1024)>>

\* Decodes the character that starts at the non-ASCII byte b[p]; a malformed
\* sequence gives U+FFFD and decoding resumes at the offending byte.
utf8One(b, p) ==
    LET b0   == b[p]
        need == utf8Need(b0)
        ok1  == IsCont(b, p + 1, utf8Lower(b0), utf8Upper(b0))
        ok2  == IsCont(b, p + 2, 128, 191)
        ok3  == IsCont(b, p + 3, 128, 191)
        bad(n) == [units |-> <<65533>>, next |-> p + n]
    IN  IF need = 0 \/ ~ok1 THEN bad(1)
        ELSE IF need = 1
        THEN [units |-> <<(b0 % 32) * 64 + (b[p + 1] % 64)>>, next |-> p + 2]
        ELSE IF ~ok2 THEN bad(2)
        ELSE IF need = 2
        THEN [units |-> <<(b0 % 16) * 4096 + (b[p + 1] % 64) * 64 + (b[p + 2] % 64)>>,
              next |-> p + 3]
        ELSE IF ~ok3 THEN bad(3)
        ELSE [units |-> codeUnits((b0 % 8) * 262144 + (b[p + 1] % 64) * 4096
                                  + (b[p + 2] % 64) * 64 + (b[p + 3] % 64)),
              next |-> p + 4]

\* buf.toString("utf-8"): never fails; malformed input becomes U+FFFD.
RECURSIVE toStringUtf8(_)
toStringUtf8(b) ==
    LET hi == Positions(b, LAMBDA c : c >= 128)
    IN  IF hi = <<>> THEN b
        ELSE LET p == hi[1]
                 r == utf8One(b, p)
             IN  SubSeq(b, 1, p - 1) \o r.units
                 \o toStringUtf8(SubSeq(b, r.next, Len(b)))

\* Buffer.from(s, "utf-8") of a well-formed string
utf8Unit(c) ==
    IF c < 128 THEN <<c>>
    ELSE IF c < 2048 THEN <<192 + (c \div 64), 128 + (c % 64)>>
    ELSE <<224 + (c \div 4096), 128 + ((c \div 64) % 64), 128 + (c % 64)>>

RECURSIVE strToUtf8(_)
strToUtf8(s) ==
    IF \A i \in 1..Len(s) : s[i] < 128 THEN s
    ELSE utf8Unit(Head(s)) \o strToUtf8(Tail(s))

\* Buffer.from(s, "binary"): the low byte of every code unit
fromBinary(s) == [i \in 1..Len(s) |-> s[i] % 256]

\* The base64 alphabet; url selects '-' and '_' for 62 and 63.
b64Char(v, url) ==
    IF v < 26 THEN 65 + v
    ELSE IF v < 52 THEN 97 + (v - 26)
    ELSE IF v < 62 THEN 48 + (v - 52)
    ELSE IF v = 62 THEN (IF url THEN 45 ELSE 43)
    ELSE (IF url THEN 95 ELSE 47)

\* The sextet of a character; 64 for a character outside both alphabets
b64Value(c) ==
    IF c >= 65 /\ c <= 90 THEN c - 65
    ELSE IF c >= 97 /\ c <= 122 THEN c - 97 + 26
    ELSE IF c >= 48 /\ c <= 57 THEN c - 48 + 52
    ELSE IF c = 43 \/ c = 45 THEN 62
    ELSE IF c = 47 \/ c = 95 THEN 63
    ELSE 64

\* The 4 characters of every 3-byte group, '=' (61) where the group is short
b64Padded(b, url) ==
    LET n == Len(b)
        at(i) == IF i <= n THEN b[i] ELSE 0
    IN  [j \in 1..(4 * ((n + 2) \div 3)) |->
            LET g  == (j - 1) \div 4
                k  == (j - 1) % 4
                b0 == at(3 * g + 1)
                b1 == at(3 * g + 2)
                b2 == at(3 * g + 3)
            IN  IF k = 0 THEN b64Char(b0 \div 4, url)
                ELSE IF k = 1 THEN b64Char((b0 % 4) * 16 + (b1 \div 16), url)
                ELSE IF k = 2
                THEN (IF 3 * g + 2 > n THEN 61
                      ELSE b64Char((b1 % 16) * 4 + (b2 \div 64), url))
                ELSE (IF 3 * g + 3 > n THEN 61 ELSE b64Char(b2 % 64, url))]

\* buf.toString("base64")
toStringBase64(b) == b64Padded(b, FALSE)

\* buf.toString("base64url"): the url alphabet, no padding
toStringBase64url(b) == SelectSeq(b64Padded(b, TRUE), LAMBDA c : c # 61)

\* Buffer.from(s, "base64"): decoding stops at the first '=', characters
\* outside the alphabets are skipped, a trailing lone sextet is dropped.
fromBase64(s) ==
    LET eq  == Positions(s, LAMBDA c : c = 61)
        upto == IF eq = <<>> THEN Len(s) ELSE eq[1] - 1
        six == SelectSeq([i \in 1..upto |-> b64Value(s[i])], LAMBDA v : v < 64)
        m   == Len(six)
        n   == 3 * (m \div 4) + (IF m % 4 >= 2 THEN (m % 4) - 1 ELSE 0)
    IN  [i \in 1..n |->
            LET g == (i - 1) \div 3
                k == (i - 1) % 3
                s0 == six[4 * g + 1]
                s1 == six[4 * g + 2]
            IN  IF k = 0 THEN s0 * 4 + (s1 \div 16)
                ELSE IF k = 1 THEN (s1 % 16) * 16 + (six[4 * g + 3] \div 4)
                ELSE (six[4 * g + 3] % 4) * 64 + six[4 * g + 4]]

-----------------------------------------------------------------------------
(* 32-bit integer operators of JavaScript, on values in [-2^31, 2^31 - 1] *)

MinInt32 == -2147483647 - 1

\* The low 31 bits of an int32, as a non-negative number
low31(x) == IF x < 0 THEN x - MinInt32 ELSE x

\* a | b on w-bit non-negative numbers
RECURSIVE orBits(_, _, _)
orBits(a, b, w) ==
    IF w = 1 THEN (IF a % 2 = 1 \/ b % 2 = 1 THEN 1 ELSE 0)
    ELSE LET h == w \div 2
         IN  orBits(a % Pow2(h), b % Pow2(h), h)
             + Pow2(h) * orBits(a \div Pow2(h), b \div Pow2(h), w - h)

\* a | b
or32(a, b) ==
    LET lo == orBits(low31(a), low31(b), 31)
    IN  IF a < 0 \/ b < 0 THEN lo + MinInt32 ELSE lo

\* v << shift for 0 <= v < 128: the shift count is taken modulo 32 and the
\* result wraps to 32 bits.
shl32(v, shift) ==
    LET s    == shift % 32
        kept == v % Pow2(Min(32 - s, 30))
    IN  IF s = 31 THEN (IF kept = 1 THEN MinInt32 ELSE 0)
        ELSE IF s >= 25 /\ kept >= Pow2(31 - s)
        THEN ((kept - Pow2(31 - s)) * Pow2(s)) + MinInt32
        ELSE kept * Pow2(s)

\* (n >>> 1) ^ -(n & 1)
zigzagDecode(n) ==
    LET half == IF n >= 0 THEN n \div 2 ELSE (low31(n) \div 2) + Pow2(30)
    IN  IF n % 2 = 1 THEN (0 - half) - 1 ELSE half

\* buf[pos] & mask-style reads: a position outside the buffer reads as
\* undefined, and undefined & x is 0.
byteOrZero(buf, pos) == IF pos >= 0 /\ pos < Len(buf) THEN buf[pos + 1] ELSE 0

\* The loop of readZigzagVarint: <<result, pos>> after the last byte read
RECURSIVE varintLoop(_, _, _, _)
varintLoop(buf, pos, shift, result) ==
    LET byte == byteOrZero(buf, pos)
        acc  == or32(result, shl32(byte % 128, shift))
    IN  IF byte < 128 THEN <<acc, pos + 1>>
        ELSE varintLoop(buf, pos + 1, shift + 7, acc)

\* readZigzagVarint(buf, offset) = [value, bytesRead]
readZigzagVarint(buf, offset) ==
    LET r == varintLoop(buf, offset, 0, 0)
    IN  <<zigzagDecode(r[1]), r[2] - offset>>

-----------------------------------------------------------------------------
(* Hashes and signatures.  SHA-256 is a fixed function from byte strings to  *)
(* 32 bytes; SHA-384 digests are kept symbolic (one opaque element standing  *)
(* for the 48 bytes), so that distinct inputs have distinct digests.         *)

SHA256_LENGTH == 32

\* The sum of (b[j] + 1) * (1 + j \div 32) over the positions j = i, i + 32, ...
RECURSIVE strideSum(_, _)
strideSum(b, j) ==
    IF j > Len(b) THEN 0
    ELSE ((b[j] + 1) * (1 + (j \div SHA256_LENGTH)) + strideSum(b, j + SHA256_LENGTH)) % 65536

\* crypto.createHash("sha256").update(b).digest()
sha256(b) == [i \in 1..SHA256_LENGTH |-> (strideSum(b, i) + 7 * i + Len(b)) % 256]

\* crypto.createHash("sha-384").update(data).digest()
sha384(data) == << [sha384 |-> data] >>

concatBuffers(a, b) == a \o b

\* deepHash of a byte string
deepHashBlob(data) ==
    LET tag      == concatBuffers(strToUtf8(S_blob), strToUtf8(toStringInt(Len(data))))
        tagHash  == sha384(tag)
        dataHash == sha384(data)
    IN  sha384(concatBuffers(tagHash, dataHash))

\* The fold of deepHash over the children of a list, from child i on
RECURSIVE deepHashFold(_, _, _)
deepHashFold(chunks, i, acc) ==
    IF i > Len(chunks) THEN acc
    ELSE deepHashFold(chunks, i + 1,
                      sha384(concatBuffers(acc, deepHashBlob(chunks[i]))))

\* deepHash of a list of byte strings
deepHash(chunks) ==
    LET tag == concatBuffers(strToUtf8(S_list), strToUtf8(toStringInt(Len(chunks))))
    IN  deepHashFold(chunks, 1, sha384(tag))

-----------------------------------------------------------------------------
(* The client side: how the SDK (test-endpoint.js) builds a DataItem *)

\* zigzagEncode(n) = (n << 1) ^ (n >> 31), for |n| < 2^30
zigzagEncode(n) == IF n >= 0 THEN 2 * n ELSE (0 - 2 * n) - 1

RECURSIVE encodeVarintLoop(_)
encodeVarintLoop(v) ==
    IF v > 127 THEN <<(v % 128) + 128>> \o encodeVarintLoop(v \div 128)
    ELSE <<v % 128>>

encodeVarint(n) == encodeVarintLoop(zigzagEncode(n))

RECURSIVE encodeTagPairs(_, _)
encodeTagPairs(tags, i) ==
    IF i > Len(tags) THEN <<>>
    ELSE LET nb == strToUtf8(tags[i].name)
             vb == strToUtf8(tags[i].value)
         IN  encodeVarint(Len(nb)) \o nb \o encodeVarint(Len(vb)) \o vb
             \o encodeTagPairs(tags, i + 1)

\* One block holding every tag, then the terminating zero block
encodeAvroTags(tags) ==
    encodeVarint(Len(tags)) \o encodeTagPairs(tags, 1) \o encodeVarint(0)

\* writeBigUInt64LE of a number below 2^31
writeBigUInt64LE(n) ==
    [i \in 1..8 |-> IF i <= 4 THEN (n \div Pow2(8 * (i - 1))) % 256 ELSE 0]

\* writeUInt16LE
writeUInt16LE(n) == <<n % 256, (n \div 256) % 256>>

\* The binary DataItem assembled from its parts; target and anchor are
\* optional 32-byte strings written after a flag byte of 1.
assembleDataItem(sigType, signature, owner, target, anchor, tagCount, tagBytes, data) ==
    writeUInt16LE(sigType) \o signature \o owner
    \o (IF target = <<>> THEN <<0>> ELSE <<1>> \o target[1])
    \o (IF anchor = <<>> THEN <<0>> ELSE <<1>> \o anchor[1])
    \o writeBigUInt64LE(tagCount) \o writeBigUInt64LE(Len(tagBytes))
    \o tagBytes \o data

\* The list whose deep hash the client signs
signatureInput(owner, target, anchor, tagBytes, data) ==
    << strToUtf8(S_dataitem), strToUtf8(S_1), strToUtf8(S_1), owner,
       IF target = <<>> THEN <<>> ELSE target[1],
       IF anchor = <<>> THEN <<>> ELSE anchor[1],
       tagBytes, data >>

-----------------------------------------------------------------------------
(* JSON.parse on a string of code units.  A value is a record with a type   *)
(* field t; an object keeps its own properties as a sequence of [k, v] in    *)
(* insertion order, a repeated key replacing the earlier value.              *)

IsJsonWs(c) == c = 32 \/ c = 9 \/ c = 10 \/ c = 13

\* The first position >= i of s whose element satisfies Test, Len(s) + 1 if none
firstFrom(s, i, Test(_)) ==
    IF i > Len(s) THEN Len(s) + 1
    ELSE IF Test(s[i]) THEN i
    ELSE LET hits == Positions(SubSeq(s, i, Len(s)), Test)
         IN  IF hits = <<>> THEN Len(s) + 1 ELSE i + hits[1] - 1

skipWs(s, i) == firstFrom(s, i, LAMBDA c : ~IsJsonWs(c))

jsonFail == [ok |-> FALSE, next |-> 0, val |-> [t |-> "none"]]

jsonOk(next, val) == [ok |-> TRUE, next |-> next, val |-> val]

hexDigitValue(c) ==
    IF IsDigit(c) THEN c - 48
    ELSE IF c >= 97 /\ c <= 102 THEN c - 87
    ELSE c - 55

\* The decoded character of a simple escape, 0 for any other character
escapeChar(e) ==
    IF e = 34 \/ e = 92 \/ e = 47 THEN e
    ELSE IF e = 98 THEN 8
    ELSE IF e = 102 THEN 12
    ELSE IF e = 110 THEN 10
    ELSE IF e = 114 THEN 13
    ELSE IF e = 116 THEN 9
    ELSE 0

\* The body of a string from position i (after the opening quote):
\* ok, the position after the closing quote, and the decoded text.
RECURSIVE jsonStringTail(_, _, _)
jsonStringTail(s, i, acc) ==
    Bind(firstFrom(s, i, LAMBDA c : c = 34 \/ c = 92 \/ c < 32), LAMBDA j :
        IF j > Len(s) \/ s[j] < 32 THEN jsonFail
        ELSE IF s[j] = 34
        THEN jsonOk(j + 1, [t |-> "string", s |-> acc \o SubSeq(s, i, j - 1)])
        ELSE IF j + 1 > Len(s) THEN jsonFail
        ELSE IF escapeChar(s[j + 1]) # 0
        THEN jsonStringTail(s, j + 2,
                            acc \o SubSeq(s, i, j - 1) \o <<escapeChar(s[j + 1])>>)
        ELSE IF s[j + 1] = 117 /\ j + 5 <= Len(s) /\ \A k \in 2..5 : IsHexI(s[j + k])
        THEN jsonStringTail(s, j + 6, acc \o SubSeq(s, i, j - 1)
               \o <<hexDigitValue(s[j + 2]) * 4096 + hexDigitValue(s[j + 3]) * 256
                    + hexDigitValue(s[j + 4]) * 16 + hexDigitValue(s[j + 5])>>)
        ELSE jsonFail)

\* s[p], 0 past the end
charAt(s, p) == IF p <= Len(s) THEN s[p] ELSE 0

\* The end of the digits that start at position i
digitsEnd(s, i) == firstFrom(s, i, LAMBDA c : ~IsDigit(c))

\* A number from position i: -? (0 | [1-9][0-9]*) (. [0-9]+)? ([eE] [+-]? [0-9]+)?
jsonNumber(s, i) ==
    Bind(IF charAt(s, i) = 45 THEN i + 1 ELSE i, LAMBDA i1 :
    Bind(IF charAt(s, i1) = 48 THEN i1 + 1 ELSE digitsEnd(s, i1), LAMBDA endInt :
    Bind(IF charAt(s, endInt) = 46 THEN digitsEnd(s, endInt + 1) ELSE endInt,
         LAMBDA endFrac :
    Bind(IF charAt(s, endFrac) = 101 \/ charAt(s, endFrac) = 69
         THEN endFrac + 1 ELSE endFrac, LAMBDA e1 :
    Bind(IF e1 > endFrac /\ (charAt(s, e1) = 43 \/ charAt(s, e1) = 45)
         THEN e1 + 1 ELSE e1, LAMBDA e2 :
    Bind(IF e1 > endFrac THEN digitsEnd(s, e2) ELSE endFrac, LAMBDA endExp :
        IF /\ endInt > i1
           /\ (charAt(s, endInt) # 46 \/ endFrac > endInt + 1)
           /\ (e1 = endFrac \/ endExp > e2)
        THEN jsonOk(endExp, [t |-> "number"])
        ELSE jsonFail))))))

\* obj with property k set to v
setMember(members, k, v) ==
    IF \E m \in 1..Len(members) : members[m].k = k
    THEN [m \in 1..Len(members) |->
            IF members[m].k = k THEN [k |-> k, v |-> v] ELSE members[m]]
    ELSE Append(members, [k |-> k, v |-> v])

RECURSIVE jsonValue(_, _)
RECURSIVE jsonMembers(_, _, _)
RECURSIVE jsonElements(_, _)

\* The members of an object from position i (at a key), given those read so far
jsonMembers(s, i, members) ==
    Bind(skipWs(s, i), LAMBDA p :
    IF p > Len(s) \/ s[p] # 34 THEN jsonFail
    ELSE
    Bind(jsonStringTail(s, p + 1, <<>>), LAMBDA key :
    IF ~key.ok THEN jsonFail
    ELSE
    Bind(skipWs(s, key.next), LAMBDA c :
    IF c > Len(s) \/ s[c] # 58 THEN jsonFail
    ELSE
    Bind(jsonValue(s, c + 1), LAMBDA v :
    IF ~v.ok THEN jsonFail
    ELSE
    Bind(<<skipWs(s, v.next), setMember(members, key.val.s, v.val)>>, LAMBDA now :
    IF now[1] > Len(s) THEN jsonFail
    ELSE IF s[now[1]] = 125
    THEN jsonOk(now[1] + 1, [t |-> "object", members |-> now[2]])
    ELSE IF s[now[1]] = 44 THEN jsonMembers(s, now[1] + 1, now[2])
    ELSE jsonFail)))))

\* The elements of an array from position i (at an element)
jsonElements(s, i) ==
    Bind(jsonValue(s, i), LAMBDA v :
    IF ~v.ok THEN jsonFail
    ELSE
    Bind(skipWs(s, v.next), LAMBDA q :
    IF q > Len(s) THEN jsonFail
    ELSE IF s[q] = 93 THEN jsonOk(q + 1, [t |-> "array"])
    ELSE IF s[q] = 44 THEN jsonElements(s, q + 1)
    ELSE jsonFail))

\* Whether the word w stands at position p of s
wordAt(s, p, w) == SubSeq(s, p, Min(Len(s), p + Len(w) - 1)) = w

jsonValue(s, i) ==
    Bind(skipWs(s, i), LAMBDA p :
    Bind(<<charAt(s, p), charAt(s, skipWs(s, p + 1))>>, LAMBDA c :
        IF c[1] = 123
        THEN IF c[2] = 125
             THEN jsonOk(skipWs(s, p + 1) + 1, [t |-> "object", members |-> <<>>])
             ELSE jsonMembers(s, p + 1, <<>>)
        ELSE IF c[1] = 91
        THEN IF c[2] = 93 THEN jsonOk(skipWs(s, p + 1) + 1, [t |-> "array"])
             ELSE jsonElements(s, p + 1)
        ELSE IF c[1] = 34 THEN jsonStringTail(s, p + 1, <<>>)
        ELSE IF c[1] = 45 \/ IsDigit(c[1]) THEN jsonNumber(s, p)
        ELSE IF wordAt(s, p, S_true) THEN jsonOk(p + 4, [t |-> "true"])
        ELSE IF wordAt(s, p, S_false) THEN jsonOk(p + 5, [t |-> "false"])
        ELSE IF wordAt(s, p, S_null) THEN jsonOk(p + 4, [t |-> "null"])
        ELSE jsonFail))

\* JSON.parse(text): ok is FALSE where it throws SyntaxError
JSONparse(text) ==
    Bind(text, LAMBDA s :
    Bind(jsonValue(s, 1), LAMBDA v :
        IF v.ok /\ skipWs(s, v.next) > Len(s) THEN v ELSE jsonFail))

-----------------------------------------------------------------------------
(* The schema validator (validate.ts) *)

\* r.test(s) for the format patterns; all are anchored at both ends.

\* /^[0-9a-f]{64}$/
SHA256_HEX(s) == Len(s) = 64 /\ \A i \in 1..64 : IsLowerHex(s[i])

\* /^\d{4}-\d{2}-\d{2}$/
DATE_UTC(s) ==
    /\ Len(s) = 10
    /\ \A i \in {1, 2, 3, 4, 6, 7, 9, 10} : IsDigit(s[i])
    /\ s[5] = 45 /\ s[8] = 45

\* /^\d{4}-\d{2}-\d{2}T\d{2}:\d{2}:\d{2}(?:\.\d+)?(?:Z|[+-]\d{2}:\d{2})$/
ISO8601(s) ==
    /\ Len(s) >= 20
    /\ DATE_UTC(SubSeq(s, 1, 10))
    /\ s[11] = 84
    /\ \A i \in {12, 13, 15, 16, 18, 19} : IsDigit(s[i])
    /\ s[14] = 58 /\ s[17] = 58
    /\ LET endFrac == firstFrom(s, 21, LAMBDA c : ~IsDigit(c))
           z       == IF s[20] = 46 /\ endFrac > 21 THEN endFrac ELSE 20
           zone    == SubSeq(s, z, Len(s))
       IN  \/ zone = <<90>>
           \/ /\ Len(zone) = 6
              /\ zone[1] = 43 \/ zone[1] = 45
              /\ \A i \in {2, 3, 5, 6} : IsDigit(zone[i])
              /\ zone[4] = 58

\* /^[0-9a-f]{8}-[0-9a-f]{4}-[0-9a-f]{4}-[0-9a-f]{4}-[0-9a-f]{12}$/i
UUID(s) ==
    /\ Len(s) = 36
    /\ \A i \in 1..36 :
          IF i \in {9, 14, 19, 24} THEN s[i] = 45 ELSE IsHexI(s[i])

\* /^(0|[1-9]\d*)$/
NON_NEGATIVE_INT(s) ==
    /\ Len(s) >= 1
    /\ \A i \in 1..Len(s) : IsDigit(s[i])
    /\ s[1] = 48 => Len(s) = 1

\* /^\d+\.\d+\.\d+$/
SEMVER(s) ==
    LET dots == Positions(s, LAMBDA c : c = 46)
    IN  /\ Len(dots) = 2
        /\ \A i \in 1..Len(s) : IsDigit(s[i]) \/ s[i] = 46
        /\ dots[1] > 1 /\ dots[2] > dots[1] + 1 /\ dots[2] < Len(s)

NAMESPACE(s) == SHA256_HEX(s)

\* The RegExp objects of the module, NAMESPACE being the object SHA256_HEX
Patterns == {"SHA256_HEX", "ISO8601", "DATE_UTC", "UUID", "NON_NEGATIVE_INT", "SEMVER"}

\* A UUID pattern that is global as well
flagsOf_globalUuid(pattern) == IF pattern = "UUID" THEN {"g", "i"} ELSE {}

\* The flags after the closing slash of a pattern
flagsOf(pattern) == IF pattern = "UUID" THEN {"i"} ELSE {}

\* pattern.test(s) for a pattern between ^ and $, given its lastIndex, the
\* length of s and whether s matches the pattern from its start: the result
\* and the lastIndex left behind.  Without the flags g and y the search
\* starts at 0 and lastIndex is not written; with one of them it starts at
\* lastIndex, where ^ matches only if that is 0, and lastIndex becomes the
\* end of the match or 0.
RegExpTest(flags, index, length, matches) ==
    IF flags \cap {"g", "y"} = {} THEN [result |-> matches, lastIndex |-> index]
    ELSE IF index = 0 /\ matches THEN [result |-> TRUE, lastIndex |-> length]
    ELSE [result |-> FALSE, lastIndex |-> 0]

MIN_SDK_VERSION == <<0, 2, 0>>

MAX_DATA_ITEM_SIZE == 12288

EXPECTED_TAG_COUNT == 9

EXPECTED_BODY_FIELD_COUNT == 5

fail(error) == [valid |-> FALSE, error |-> error]

\* parseInt(digits, 10)
RECURSIVE parseIntDigits(_, _)
parseIntDigits(s, acc) ==
    IF s = <<>> THEN acc ELSE parseIntDigits(Tail(s), 10 * acc + (Head(s) - 48))

\* parseSemver(s): <<>> for null, else <<[major, minor, patch]>>.  The pattern
\* /^(\d+)\.(\d+)\.(\d+)/ is anchored at the start only.
parseSemver(s) ==
    Bind(digitsEnd(s, 1), LAMBDA e1 :
    Bind(digitsEnd(s, e1 + 1), LAMBDA e2 :
    Bind(digitsEnd(s, e2 + 1), LAMBDA e3 :
        IF /\ e1 > 1 /\ e1 <= Len(s) /\ s[e1] = 46
           /\ e2 > e1 + 1 /\ e2 <= Len(s) /\ s[e2] = 46
           /\ e3 > e2 + 1
        THEN << <<parseIntDigits(SubSeq(s, 1, e1 - 1), 0),
                  parseIntDigits(SubSeq(s, e1 + 1, e2 - 1), 0),
                  parseIntDigits(SubSeq(s, e2 + 1, e3 - 1), 0)>> >>
        ELSE <<>>)))

\* semverGte(a, b): the first differing component decides
RECURSIVE semverGteFrom(_, _, _)
semverGteFrom(a, b, i) ==
    IF i > 3 THEN TRUE
    ELSE IF a[i] > b[i] THEN TRUE
    ELSE IF a[i] < b[i] THEN FALSE
    ELSE semverGteFrom(a, b, i + 1)

semverGte(a, b) == semverGteFrom(a, b, 1)

\* The first tag repeating an earlier name, 0 if none (the tagMap loop)
firstDuplicate(tags) ==
    LET dup == Positions([i \in 1..Len(tags) |->
                            \E j \in 1..(i - 1) : tags[j].name = tags[i].name],
                         LAMBDA d : d)
    IN  IF dup = <<>> THEN 0 ELSE dup[1]

\* tagMap.get(name) once the map holds every tag: <<>> for undefined
tagMapGet(tags, name) ==
    LET at == Positions(tags, LAMBDA t : t.name = name)
    IN  IF at = <<>> THEN <<>> ELSE <<tags[at[Len(at)]].value>>

\* !tag || !pattern.test(tag)
tagFails(tag, pattern(_)) == tag = <<>> \/ tag[1] = <<>> \/ ~pattern(tag[1])

\* parsed[name] of a parsed JSON object: <<>> for undefined
getField(obj, name) ==
    LET at == Positions(obj.members, LAMBDA m : m.k = name)
    IN  IF at = <<>> THEN <<>> ELSE <<obj.members[at[1]].v>>

\* typeof x !== "string" || !pattern.test(x)
fieldFails(x, pattern(_)) == x = <<>> \/ x[1].t # "string" \/ ~pattern(x[1].s)

\* tag !== field, for a tag that is a string
differs(tag, x) == x = <<>> \/ x[1].t # "string" \/ tag[1] # x[1].s

\* A check that only asks for a version
belowMinimum_never(parsedVersion) == parsedVersion = <<>>

\* !parsedVersion || !semverGte(parsedVersion, MIN_SDK_VERSION)
belowMinimum(parsedVersion) ==
    parsedVersion = <<>> \/ ~semverGte(parsedVersion[1], MIN_SDK_VERSION)

\* x === "1"
IsOne(s) == s = S_1

\* Envelope checks without the target check
envelopeChecks_noTarget(signatureType, totalSize, target, anchor) ==
    IF totalSize > MAX_DATA_ITEM_SIZE THEN fail("DataItem exceeds maximum size")
    ELSE IF signatureType # 1 THEN fail("Invalid signature type")
    ELSE IF anchor # <<>> THEN fail("DataItem must not have an anchor field")
    ELSE [valid |-> TRUE]

\* Envelope checks that look at the anchor before the target
envelopeChecks_anchorFirst(signatureType, totalSize, target, anchor) ==
    IF totalSize > MAX_DATA_ITEM_SIZE THEN fail("DataItem exceeds maximum size")
    ELSE IF signatureType # 1 THEN fail("Invalid signature type")
    ELSE IF anchor # <<>> THEN fail("DataItem must not have an anchor field")
    ELSE IF target # <<>> THEN fail("DataItem must not have a target field")
    ELSE [valid |-> TRUE]

\* The size, signature type, target and anchor checks
envelopeChecks(signatureType, totalSize, target, anchor) ==
    IF totalSize > MAX_DATA_ITEM_SIZE THEN fail("DataItem exceeds maximum size")
    ELSE IF signatureType # 1 THEN fail("Invalid signature type")
    ELSE IF target # <<>> THEN fail("DataItem must not have a target field")
    ELSE IF anchor # <<>> THEN fail("DataItem must not have an anchor field")
    ELSE [valid |-> TRUE]

\* A comparison of the years only
dateMismatch_year(notarizedDateTag, notarizedAtTag) ==
    SubSeq(notarizedDateTag, 1, 4) # SubSeq(notarizedAtTag, 1, 4)

\* notarizedDateTag !== notarizedAtTag.slice(0, 10)
dateMismatch(notarizedDateTag, notarizedAtTag) ==
    notarizedDateTag # SubSeq(notarizedAtTag, 1, Min(10, Len(notarizedAtTag)))

\* The tag count, the duplicate check, and the checks of the nine tags
tagChecks(tags) ==
    IF Len(tags) # EXPECTED_TAG_COUNT THEN fail("Expected exactly 9 tags")
    ELSE IF firstDuplicate(tags) # 0 THEN fail("Duplicate tag")
    ELSE IF tagMapGet(tags, S_AppName) # <<S_agentsystems_notary>>
    THEN fail("Invalid or missing App-Name tag")
    ELSE IF tagMapGet(tags, S_ContentType) # <<S_application_json>>
    THEN fail("Invalid or missing Content-Type tag")
    ELSE IF tagFails(tagMapGet(tags, S_Hash), SHA256_HEX)
    THEN fail("Invalid or missing Hash tag")
    ELSE IF tagFails(tagMapGet(tags, S_Namespace), NAMESPACE)
    THEN fail("Invalid or missing Namespace tag")
    ELSE IF tagFails(tagMapGet(tags, S_SessionID), UUID)
    THEN fail("Invalid or missing Session-ID tag")
    ELSE IF tagFails(tagMapGet(tags, S_Sequence), NON_NEGATIVE_INT)
    THEN fail("Invalid or missing Sequence tag")
    ELSE IF tagFails(tagMapGet(tags, S_NotarizedAt), ISO8601)
    THEN fail("Invalid or missing Notarized-At tag")
    ELSE IF tagFails(tagMapGet(tags, S_NotarizedDateUTC), DATE_UTC)
    THEN fail("Invalid or missing Notarized-Date-UTC tag")
    ELSE IF tagFails(tagMapGet(tags, S_SDKVersion), SEMVER)
    THEN fail("Invalid or missing SDK-Version tag")
    ELSE IF belowMinimum(parseSemver(tagMapGet(tags, S_SDKVersion)[1]))
    THEN fail("SDK-Version is below minimum")
    ELSE IF dateMismatch(tagMapGet(tags, S_NotarizedDateUTC)[1],
                         tagMapGet(tags, S_NotarizedAt)[1])
    THEN fail("Notarized-Date-UTC does not match date in Notarized-At")
    ELSE [valid |-> TRUE]

\* The checks of the five body fields of a parsed object
fieldChecks(obj) ==
    IF fieldFails(getField(obj, S_hash), SHA256_HEX)
    THEN fail("Invalid or missing body field hash")
    ELSE IF fieldFails(getField(obj, S_namespace), NAMESPACE)
    THEN fail("Invalid or missing body field namespace")
    ELSE IF fieldFails(getField(obj, S_notarized_at), ISO8601)
    THEN fail("Invalid or missing body field notarized_at")
    ELSE IF fieldFails(getField(obj, S_sdk_version), SEMVER)
    THEN fail("Invalid or missing body field sdk_version")
    ELSE IF fieldFails(getField(obj, S_v), IsOne)
    THEN fail("Invalid or missing body field v")
    ELSE [valid |-> TRUE]

\* Cross checks that leave out the namespace
crossChecks_noNamespace(tags, obj) ==
    IF differs(tagMapGet(tags, S_Hash), getField(obj, S_hash))
    THEN fail("Hash tag does not match body hash")
    ELSE IF differs(tagMapGet(tags, S_NotarizedAt), getField(obj, S_notarized_at))
    THEN fail("Notarized-At tag does not match body notarized_at")
    ELSE IF differs(tagMapGet(tags, S_SDKVersion), getField(obj, S_sdk_version))
    THEN fail("SDK-Version tag does not match body sdk_version")
    ELSE [valid |-> TRUE]

\* The comparisons of the tags with the body fields
crossChecks(tags, obj) ==
    IF differs(tagMapGet(tags, S_Hash), getField(obj, S_hash))
    THEN fail("Hash tag does not match body hash")
    ELSE IF differs(tagMapGet(tags, S_Namespace), getField(obj, S_namespace))
    THEN fail("Namespace tag does not match body namespace")
    ELSE IF differs(tagMapGet(tags, S_NotarizedAt), getField(obj, S_notarized_at))
    THEN fail("Notarized-At tag does not match body notarized_at")
    ELSE IF differs(tagMapGet(tags, S_SDKVersion), getField(obj, S_sdk_version))
    THEN fail("SDK-Version tag does not match body sdk_version")
    ELSE [valid |-> TRUE]

\* The body checks: JSON, object, field count, the fields, the cross checks
bodyChecks(tags, rawData) ==
    Bind(JSONparse(toStringUtf8(rawData)), LAMBDA doc :
        IF ~doc.ok THEN fail("Data payload is not valid JSON")
        ELSE IF doc.val.t # "object" THEN fail("Data payload must be a JSON object")
        ELSE IF Len(doc.val.members) # EXPECTED_BODY_FIELD_COUNT
        THEN fail("Expected exactly 5 fields in body")
        ELSE IF ~fieldChecks(doc.val).valid THEN fieldChecks(doc.val)
        ELSE crossChecks(tags, doc.val))

\* validateDataItem: the checks in source order, the first failure returned.
\* An error is named by the fixed text of its message.
validateDataItem(signatureType, tags, rawData, totalSize, target, anchor) ==
    IF ~envelopeChecks(signatureType, totalSize, target, anchor).valid
    THEN envelopeChecks(signatureType, totalSize, target, anchor)
    ELSE IF ~tagChecks(tags).valid THEN tagChecks(tags)
    ELSE bodyChecks(tags, rawData)

-----------------------------------------------------------------------------
(* The DataItem decoder (data-item.ts) *)

SIG_TYPE_OFFSET == 0

SIG_OFFSET == 2

SIG_LENGTH == 512

OWNER_OFFSET == SIG_OFFSET + SIG_LENGTH

OWNER_LENGTH == 512

FLAGS_START == OWNER_OFFSET + OWNER_LENGTH

\* The length of a target or an anchor
FIELD_LENGTH == 32

\* A stand-in for every 64-bit value of 2^30 and above: such a count equals no
\* array length and such a length reaches past the end of every buffer.
Huge == Pow2(30)

\* Whether n bytes can be read at offset off (else the read throws RangeError)
canRead(buf, off, n) == off >= 0 /\ off + n <= Len(buf)

\* A read of the low byte only
readUInt16LE_lowByte(buf, off) == buf[off + 1]

readUInt16LE(buf, off) == buf[off + 1] + 256 * buf[off + 2]

\* Number(buf.readBigUInt64LE(off))
readBigUInt64LE(buf, off) ==
    IF (\A k \in 5..8 : buf[off + k] = 0) /\ buf[off + 4] < 64
    THEN buf[off + 1] + 256 * buf[off + 2] + 65536 * buf[off + 3]
         + 16777216 * buf[off + 4]
    ELSE Huge

\* buffer[offset] === 1
flagSet(buf, off) == off < Len(buf) /\ buf[off + 1] = 1

\* Math.abs of an int32
abs32(n) == IF n = MinInt32 THEN 2147483647 ELSE IF n < 0 THEN 0 - n ELSE n

\* One name/value pair read at offset: the tag and the offset after it
readPair(buf, offset) ==
    Bind(readZigzagVarint(buf, offset), LAMBDA nameLen :
    Bind(offset + nameLen[2], LAMBDA o1 :
    Bind(readZigzagVarint(buf, o1 + nameLen[1]), LAMBDA valueLen :
    Bind(o1 + nameLen[1] + valueLen[2], LAMBDA o3 :
        [tag  |-> [name  |-> toStringUtf8(subarray(buf, o1, o1 + nameLen[1])),
                   value |-> toStringUtf8(subarray(buf, o3, o3 + valueLen[1]))],
         next |-> o3 + valueLen[1]]))))

\* A block header read at offset: the count, and the offset after the header
\* (a negative count is followed by the block's byte size, which is skipped)
readBlock(buf, offset) ==
    Bind(readZigzagVarint(buf, offset), LAMBDA blockCount :
        [count |-> blockCount[1],
         next  |-> IF blockCount[1] < 0
                   THEN offset + blockCount[2]
                        + readZigzagVarint(buf, offset + blockCount[2])[2]
                   ELSE offset + blockCount[2]])

\* The two loops of decodeAvroTags as one recursion: left is the number of
\* pairs still to read in the current block, 0 between blocks.  The source
\* has no bound of its own; a decode that has pushed more than MaxTags tags
\* is reported as "exhausted".
RECURSIVE avroLoop(_, _, _, _)
avroLoop(buf, offset, left, tags) ==
    IF Len(tags) > MaxTags THEN [outcome |-> "exhausted", tags |-> tags]
    ELSE IF left > 0
    THEN Bind(readPair(buf, offset), LAMBDA pair :
         Bind(<<left - 1, Append(tags, pair.tag)>>, LAMBDA now :
             avroLoop(buf, pair.next, now[1], now[2])))
    ELSE IF offset < Len(buf)
    THEN Bind(readBlock(buf, offset), LAMBDA block :
             IF block.count = 0 THEN [outcome |-> "ok", tags |-> tags]
             ELSE avroLoop(buf, block.next, abs32(block.count), tags))
    ELSE [outcome |-> "ok", tags |-> tags]

decodeAvroTags(buf) == Bind(buf, LAMBDA b : avroLoop(b, 0, 0, <<>>))

\* bufferToBase64url
bufferToBase64url(buf) == toStringBase64url(buf)

\* s.replace(/\0+$/, "")
stripTrailingNuls(s) ==
    LET keep == Positions(s, LAMBDA c : c # 0)
    IN  IF keep = <<>> THEN <<>> ELSE SubSeq(s, 1, keep[Len(keep)])

throw(message) == [outcome |-> "throw", error |-> message]

\* The offset of the tag count: after the target flag, the target, the
\* anchor flag and the anchor
countOffset(buf) ==
    Bind(IF flagSet(buf, FLAGS_START) THEN FLAGS_START + 1 + FIELD_LENGTH
         ELSE FLAGS_START + 1, LAMBDA anchorFlag :
        IF flagSet(buf, anchorFlag) THEN anchorFlag + 1 + FIELD_LENGTH
        ELSE anchorFlag + 1)

\* The optional 32-byte field behind the flag at offset off
optionalField(buf, off) ==
    IF flagSet(buf, off) THEN <<subarray(buf, off + 1, off + 1 + FIELD_LENGTH)>>
    ELSE <<>>

\* The anchor flag's offset
anchorFlagOffset(buf) ==
    IF flagSet(buf, FLAGS_START) THEN FLAGS_START + 1 + FIELD_LENGTH
    ELSE FLAGS_START + 1

\* The result for a buffer whose header and tags have been read
parsedDataItem(buf, signature, owner, target, anchor, tagBytes, tags, data) ==
    [outcome       |-> "ok",
     id            |-> toStringBase64url(sha256(signature)),
     signatureType |-> readUInt16LE(buf, SIG_TYPE_OFFSET),
     owner         |-> bufferToBase64url(owner),
     target        |-> IF target = <<>> THEN <<>> ELSE <<bufferToBase64url(target[1])>>,
     anchor        |-> IF anchor = <<>> \/ stripTrailingNuls(toStringUtf8(anchor[1])) = <<>>
                       THEN <<>>
                       ELSE <<stripTrailingNuls(toStringUtf8(anchor[1]))>>,
     tags          |-> tags,
     rawData       |-> data,
     sigBytes      |-> signature,
     ownerBytes    |-> owner,
     targetBytes   |-> target,
     anchorBytes   |-> anchor,
     tagBytes      |-> tagBytes]

\* A comparison that lets fewer tags than declared pass
tagCountMismatch_atMost(tags, tagCount) == Len(tags) > tagCount

\* tags.length !== tagCount
tagCountMismatch(tags, tagCount) == Len(tags) # tagCount

\* parseDataItem(buffer): outcome "ok" with the ParsedDataItem fields (and
\* the byte ranges its isValid closure holds), "throw" with the error, or
\* "exhausted" when the tag decoding does not come to an end.
parseDataItem(buf) ==
    IF ~canRead(buf, SIG_TYPE_OFFSET, 2) THEN throw("RangeError")
    ELSE IF readUInt16LE(buf, SIG_TYPE_OFFSET) # 1
    THEN throw("Unsupported signature type")
    ELSE
    Bind(countOffset(buf), LAMBDA oC :
    IF ~canRead(buf, oC, 8) \/ ~canRead(buf, oC + 8, 8) THEN throw("RangeError")
    ELSE
    Bind(<<readBigUInt64LE(buf, oC), readBigUInt64LE(buf, oC + 8)>>, LAMBDA count :
    Bind(subarray(buf, oC + 16, oC + 16 + count[2]), LAMBDA tagBytes :
    Bind(IF count[2] > 0 THEN decodeAvroTags(tagBytes)
         ELSE [outcome |-> "ok", tags |-> <<>>], LAMBDA decoded :
        IF decoded.outcome = "exhausted" THEN [outcome |-> "exhausted"]
        ELSE IF tagCountMismatch(decoded.tags, count[1])
        THEN throw("Tag count mismatch")
        ELSE parsedDataItem(buf,
                            subarray(buf, SIG_OFFSET, SIG_OFFSET + SIG_LENGTH),
                            subarray(buf, OWNER_OFFSET, OWNER_OFFSET + OWNER_LENGTH),
                            optionalField(buf, FLAGS_START),
                            optionalField(buf, anchorFlagOffset(buf)),
                            tagBytes, decoded.tags,
                            subarray(buf, oC + 16 + count[2], Len(buf)))))))

\* A tag
Tag(name, value) == [name |-> name, value |-> value]

\* The nine tags of the SDK, in the order it writes them
sdkTags(hash, namespace, sessionId, sequence, notarizedAt, dateUtc, sdkVersion) ==
    << Tag(S_AppName, S_agentsystems_notary), Tag(S_ContentType, S_application_json),
       Tag(S_Hash, hash), Tag(S_Namespace, namespace), Tag(S_SessionID, sessionId),
       Tag(S_Sequence, sequence), Tag(S_NotarizedAt, notarizedAt),
       Tag(S_NotarizedDateUTC, dateUtc), Tag(S_SDKVersion, sdkVersion) >>

\* A JSON string value, and a value given by its JSON text
Str(s) == [t |-> "string", s |-> s]

Raw(text) == [t |-> "raw", s |-> text]

Member(k, v) == [k |-> k, v |-> v]

\* The five members of the payload, in the order the SDK writes them
sdkBody(hash, namespace, notarizedAt, sdkVersion) ==
    << Member(S_v, Str(S_1)), Member(S_hash, Str(hash)),
       Member(S_namespace, Str(namespace)), Member(S_notarized_at, Str(notarizedAt)),
       Member(S_sdk_version, Str(sdkVersion)) >>

\* JSON.stringify of a string without quotes, backslashes or control characters
quote(s) == <<34>> \o s \o <<34>>

RECURSIVE stringifyMembers(_, _)
stringifyMembers(members, i) ==
    IF i > Len(members) THEN <<>>
    ELSE (IF i > 1 THEN <<44>> ELSE <<>>)
         \o quote(members[i].k) \o <<58>>
         \o (IF members[i].v.t = "string" THEN quote(members[i].v.s) ELSE members[i].v.s)
         \o stringifyMembers(members, i + 1)

\* The JSON text of an object written member by member
stringify(members) == <<123>> \o stringifyMembers(members, 1) \o <<125>>

\* The payload bytes of a JSON text
payload(text) == strToUtf8(text)

TAGS_OK == sdkTags(HEX_A, HEX_B, UUID_A, SEQ_0, AT_A, DATE_A, SDK_020)

BODY_OK == sdkBody(HEX_A, HEX_B, AT_A, SDK_020)

TAGS_OLD_SDK == sdkTags(HEX_A, HEX_B, UUID_A, SEQ_0, AT_A, DATE_A, SDK_019)

BODY_OLD_SDK == sdkBody(HEX_A, HEX_B, AT_A, SDK_019)

\* The modulus of a client key, and a second client's
OWNER_A == [i \in 1..OWNER_LENGTH |-> (161 + 3 * i) % 256]

OWNER_B == [i \in 1..OWNER_LENGTH |-> (77 + 5 * i) % 256]

\* The signature the holder of a key produced when it signed for the n-th time
signatureNo(n) == [i \in 1..SIG_LENGTH |-> (n * 41 + 7 * i) % 256]

\* A 32-byte target or anchor
field32(b) == Fill(FIELD_LENGTH, b)

\* A DataItem as its builder describes it: the fields, the signature number,
\* and whether the signature was made over exactly these fields.
Item(n, owner, target, anchor, tags, data, signed) ==
    [n |-> n, owner |-> owner, target |-> target, anchor |-> anchor,
     tagCount |-> Len(tags), tagBytes |-> encodeAvroTags(tags), data |-> data,
     signed |-> signed]

\* its bytes on the wire
wire(it) ==
    assembleDataItem(1, signatureNo(it.n), it.owner, it.target, it.anchor,
                     it.tagCount, it.tagBytes, it.data)

\* The valid DataItem of the SDK, and a second one from another client
IT_OK == Item(1, OWNER_A, <<>>, <<>>, TAGS_OK, payload(stringify(BODY_OK)), TRUE)

IT_OK2 ==
    Item(2, OWNER_B, <<>>, <<>>,
         sdkTags(HEX_B, HEX_A, UUID_UPPER, SEQ_17, AT_Z, DATE_B, SDK_100),
         payload(stringify(sdkBody(HEX_B, HEX_A, AT_Z, SDK_100))), TRUE)

\* IT_OK with another signature, and IT_OK with the payload changed after signing
IT_FORGED == [IT_OK EXCEPT !.n = 3, !.signed = FALSE]

IT_TAMPERED ==
    [IT_OK EXCEPT !.data = payload(stringify(sdkBody(HEX_A, HEX_A, AT_A, SDK_020))),
                  !.signed = FALSE]

\* Properly signed, but from an SDK below the minimum version
IT_OLD_SDK ==
    Item(4, OWNER_A, <<>>, <<>>, TAGS_OLD_SDK, payload(stringify(BODY_OLD_SDK)), TRUE)

\* Properly signed, with a target of 32 bytes b
IT_TARGET(b) ==
    Item(5, OWNER_A, <<field32(b)>>, <<>>, TAGS_OK, payload(stringify(BODY_OK)), TRUE)

\* Properly signed, with an anchor of 32 bytes b
IT_ANCHOR(b) ==
    Item(11, OWNER_A, <<>>, <<field32(b)>>, TAGS_OK, payload(stringify(BODY_OK)), TRUE)

\* The item with its payload followed by spaces up to a total wire length
padTo(it, total) == [it EXCEPT !.data = it.data \o Fill(total - Len(wire(it)), 32)]

IT_MAX == padTo([IT_OK EXCEPT !.n = 6], MAX_DATA_ITEM_SIZE)

IT_BIG == padTo([IT_OK EXCEPT !.n = 7], MAX_DATA_ITEM_SIZE + 1)

IT_BIG_TARGET == padTo([IT_TARGET(9) EXCEPT !.n = 8], MAX_DATA_ITEM_SIZE + 1)

\* The header declares one tag less than the tag region holds
IT_COUNT == [IT_OK EXCEPT !.n = 9, !.tagCount = 8]

\* A tag region whose one pair ends with a value length of -3: the read
\* offset returns to the start of the region
IT_LOOP == [IT_OK EXCEPT !.n = 10, !.tagCount = 1, !.tagBytes = <<2, 0, 5>>]

\* Every DataItem a client signed over exactly its fields
SignedItems ==
    {it \in {IT_OK, IT_OK2, IT_OLD_SDK, IT_TARGET(0), IT_TARGET(7), IT_TARGET(255),
             IT_ANCHOR(0), IT_ANCHOR(7), IT_MAX, IT_BIG, IT_BIG_TARGET, IT_COUNT,
             IT_LOOP} : it.signed}

\* What the RSA keys of the clients have signed: owner, message, signature
Signed ==
    { [owner |-> it.owner,
       msg   |-> deepHash(signatureInput(it.owner, it.target, it.anchor,
                                         it.tagBytes, it.data)),
       sig   |-> signatureNo(it.n)] : it \in SignedItems }

\* crypto.verify("sha256", msg, {key: publicKey(owner), padding: PSS}, sig):
\* true for what the key's holder signed, false for everything else
cryptoVerify(msg, owner, sig) ==
    [owner |-> owner, msg |-> msg, sig |-> sig] \in Signed

\* signatureData: the message verifyDataItem hands to crypto.verify
dataItemMessage(owner, target, anchor, tagBytes, data) ==
    deepHash(<< strToUtf8(S_dataitem), strToUtf8(S_1), strToUtf8(S_1), owner,
                IF target = <<>> THEN <<>> ELSE target[1],
                IF anchor = <<>> THEN <<>> ELSE anchor[1],
                tagBytes, data >>)

\* verifyDataItem(signature, owner, target, anchor, tagBytes, data);
\* target and anchor are optional buffers
verifyDataItem(signature, owner, target, anchor, tagBytes, data) ==
    cryptoVerify(dataItemMessage(owner, target, anchor, tagBytes, data), owner, signature)

\* A verifier that accepts every signature
isValid_any(p) == TRUE

\* parsed.isValid()
isValid(p) ==
    verifyDataItem(p.sigBytes, p.ownerBytes, p.targetBytes, p.anchorBytes,
                   p.tagBytes, p.rawData)

-----------------------------------------------------------------------------
(* The bundle assembler (assemble-bundle.ts) *)

\* An array of 8 bytes only
longTo32ByteArray_short(long) ==
    [i \in 1..8 |-> IF i <= 4 THEN (long \div Pow2(8 * (i - 1))) % 256 ELSE 0]

\* longTo32ByteArray(long), for a number below 2^31
longTo32ByteArray(long) ==
    [i \in 1..32 |-> IF i <= 4 THEN (long \div Pow2(8 * (i - 1))) % 256 ELSE 0]

\* An index entry with the hash before the size
indexEntry_idFirst(item) ==
    sha256(subarray(item, SIG_OFFSET, SIG_OFFSET + SIG_LENGTH))
    \o longTo32ByteArray(Len(item))

\* An index entry with the hash of the whole item
indexEntry_wholeItem(item) == longTo32ByteArray(Len(item)) \o sha256(item)

\* The index entry of one item: its size and the hash of its signature slice
indexEntry(item) ==
    longTo32ByteArray(Len(item))
    \o sha256(subarray(item, SIG_OFFSET, SIG_OFFSET + SIG_LENGTH))

\* A concatenation from the last buffer to the first
RECURSIVE concatAll_reversed(_, _)
concatAll_reversed(bufs, i) ==
    IF i > Len(bufs) THEN <<>> ELSE concatAll_reversed(bufs, i + 1) \o bufs[i]

RECURSIVE concatAll(_, _)
concatAll(bufs, i) == IF i > Len(bufs) THEN <<>> ELSE bufs[i] \o concatAll(bufs, i + 1)

assembleBundle(items) ==
    longTo32ByteArray(Len(items))
    \o concatAll([i \in 1..Len(items) |-> indexEntry(items[i])], 1)
    \o concatAll(items, 1)

-----------------------------------------------------------------------------
(* Configuration (config.ts) and the requests of the model *)

\* config.apiKey: process.env.API_KEY || undefined
configApiKey == IF envApiKey = <<>> \/ envApiKey[1] = <<>> THEN <<>> ELSE envApiKey

\* config.dryRun: process.env.DRY_RUN === "true"
configDryRun == envDryRun = <<"true">>

\* The environments of the model: API_KEY unset, empty or a key; DRY_RUN
\* unset, "true" or "false"
Environments ==
    { [API_KEY |-> <<>>,         DRY_RUN |-> <<>>],
      [API_KEY |-> << <<>> >>,   DRY_RUN |-> <<"false">>],
      [API_KEY |-> <<S_secret>>, DRY_RUN |-> <<"true">>],
      [API_KEY |-> <<S_secret>>, DRY_RUN |-> <<>>] }

\* The x-api-key headers sent: none, empty, the key, a key of the same length
\* that differs in one character, a shorter key, and a key of one character
\* less that takes as many bytes
KeyHeaders == {<<>>, << <<>> >>, <<S_secret>>, <<S_secrex>>, <<S_short>>, <<S_accent>>}

\* An API Gateway event: the x-api-key header, the body, the encoding flag
Event(key, body, isBase64Encoded) ==
    [key |-> key, body |-> body, isBase64Encoded |-> isBase64Encoded]

\* The request carrying a DataItem the way API Gateway passes binary bodies
itemEvent(key, it) == Event(key, <<toStringBase64(wire(it))>>, TRUE)

\* The DataItems sent with the right key
SentItems ==
    {IT_OK, IT_OK2, IT_FORGED, IT_TAMPERED, IT_OLD_SDK, IT_TARGET(0), IT_TARGET(7),
     IT_ANCHOR(0), IT_ANCHOR(7), IT_MAX, IT_BIG, IT_BIG_TARGET, IT_COUNT, IT_LOOP}

Events ==
    {itemEvent(<<S_secret>>, it) : it \in SentItems}
    \cup {itemEvent(k, IT_OK) : k \in KeyHeaders}
    \cup {Event(<<S_secret>>, b, enc) :
            b \in { <<>>, << <<>> >>,
                    \* a body that is no DataItem at all
                    << <<1, 0, 65, 66>> >>,
                    \* signature type 2
                    << Fill(1100, 2) >>,
                    \* the DataItem as a binary string
                    << wire(IT_OK) >>,
                    \* the same with the high byte of a code unit set
                    << [wire(IT_OK) EXCEPT ![1] = 257] >> },
            enc \in {FALSE}}

-----------------------------------------------------------------------------
(* The verify handler (handlers/verify.ts) *)

\* A key check that compares the lengths of the keys only
checkApiKey_lengthOnly(provided, expected) ==
    IF provided = <<>> \/ provided[1] = <<>> THEN FALSE
    ELSE Len(strToUtf8(provided[1])) = Len(strToUtf8(expected))

\* checkApiKey(provided, expected); provided is optional
checkApiKey(provided, expected) ==
    IF provided = <<>> \/ provided[1] = <<>> THEN FALSE
    ELSE LET a == strToUtf8(provided[1])
             b == strToUtf8(expected)
         IN  IF Len(a) # Len(b) THEN FALSE ELSE a = b

\* response(statusCode, body)
response(statusCode, body) == [statusCode |-> statusCode, body |-> body]

\* A handler that leaves the decoder's exception to the generic catch
onParseError_uncaught(message) == [statusCode |-> 500, body |-> "Internal server error"]

\* catch (err) { return response(400, {error: `Invalid DataItem: ${message}`}) }
onParseError(message) == response(400, <<"Invalid DataItem", message>>)

\* A handler that answers a failed send like a successful one
genericCatch_ok(id) == [statusCode |-> 200, body |-> id]

\* The generic catch of the handler; id is the id it would have answered
genericCatch(id) == response(500, "Internal server error")

\* The handler returns r
Return(r) ==
    /\ resp' = <<r>>
    /\ pc' = "idle"

Step(name) == trail' = Append(trail, name)

handlerLocals == <<buffer, parsed, valid, validation>>

bundleVars ==
    <<bpc, records, dataItems, tx, cachedOwner, cachedKeyArn, kmsLog, console, posted>>

validateVars == <<vin, vout, edits, vbefore, vedit>>

parseVars == <<pin, pout, pedits>>

assembleVars == <<ain, aout>>

callVars == <<calls, lastIndex, ownerCalls>>

harnessVars == <<validateVars, parseVars, assembleVars, callVars>>

envVars == <<envApiKey, envDryRun>>

\* The requests of the runs that take DataItems through the queue into a
\* bundle
PipelineEvents ==
    {itemEvent(<<S_secret>>, it) : it \in {IT_OK, IT_OK2, IT_FORGED}}
    \cup {itemEvent(<<S_secrex>>, IT_OK), Event(<<S_secret>>, <<>>, FALSE)}

\* API Gateway invokes the handler with one of the given events
Invoke(events, max) ==
    /\ pc = "idle"
    /\ reqNo < max
    /\ \E e \in events : event' = e
    /\ reqNo' = reqNo + 1
    /\ pc' = "auth"
    /\ resp' = <<>>
    /\ trail' = <<>>
    /\ buffer' = <<>> /\ parsed' = <<>> /\ valid' = FALSE /\ validation' = <<>>
    /\ UNCHANGED <<queue, bundleVars, harnessVars, envVars>>

Receive == Invoke(Events, MaxRequests)

PipelineReceive == Invoke(PipelineEvents, MaxPipelineRequests)

\* if (config.apiKey) { if (!checkApiKey(...)) return 401 }
Auth ==
    /\ pc = "auth"
    /\ IF configApiKey # <<>> /\ ~checkApiKey(event.key, configApiKey[1])
       THEN Return(response(401, "Unauthorized")) /\ Step("unauthorized")
       ELSE pc' = "body" /\ Step("auth") /\ UNCHANGED resp
    /\ UNCHANGED <<reqNo, event, handlerLocals, queue, bundleVars, harnessVars, envVars>>

\* if (!body) return 400; buffer = Buffer.from(body, base64 or binary)
ReadBody ==
    /\ pc = "body"
    /\ IF event.body = <<>> \/ event.body[1] = <<>>
       THEN /\ Return(response(400, "Missing request body"))
            /\ Step("no body")
            /\ UNCHANGED buffer
       ELSE /\ buffer' = IF event.isBase64Encoded THEN fromBase64(event.body[1])
                         ELSE fromBinary(event.body[1])
            /\ pc' = "parse"
            /\ Step("body")
            /\ UNCHANGED resp
    /\ UNCHANGED <<reqNo, event, parsed, valid, validation, queue, bundleVars,
                   harnessVars, envVars>>

\* try { parsed = parseDataItem(buffer) } catch (err) { return 400 }
Parse ==
    /\ pc = "parse"
    /\ \E p \in {parseDataItem(buffer)} :
           IF p.outcome = "throw"
           THEN /\ Return(onParseError(p.error))
                /\ Step("parse threw")
                /\ UNCHANGED parsed
           ELSE IF p.outcome = "exhausted"
           THEN /\ pc' = "decoding"
                /\ Step("parse without end")
                /\ UNCHANGED <<parsed, resp>>
           ELSE /\ parsed' = p
                /\ pc' = "verify"
                /\ Step("parsed")
                /\ UNCHANGED resp
    /\ UNCHANGED <<reqNo, event, buffer, valid, validation, queue, bundleVars,
                   harnessVars, envVars>>

\* valid = await parsed.isValid(); if (!valid) return 400
Verify ==
    /\ pc = "verify"
    /\ valid' = isValid(parsed)
    /\ IF ~valid'
       THEN Return(response(400, "DataItem signature verification failed"))
            /\ Step("signature invalid")
       ELSE pc' = "validate" /\ Step("signature valid") /\ UNCHANGED resp
    /\ UNCHANGED <<reqNo, event, buffer, parsed, validation, queue, bundleVars,
                   harnessVars, envVars>>

\* A call of validateDataItem that passes the length of the payload
handlerValidate_payloadSize(p, buf) ==
    validateDataItem(p.signatureType, p.tags, p.rawData, Len(p.rawData), p.target,
                     p.anchor)

\* The call of validateDataItem in the handler
handlerValidate(p, buf) ==
    validateDataItem(p.signatureType, p.tags, p.rawData, Len(buf), p.target, p.anchor)

\* validation = validateDataItem(...); if (!validation.valid) return 400
Validate ==
    /\ pc = "validate"
    /\ validation' = handlerValidate(parsed, buffer)
    /\ IF ~validation'.valid
       THEN Return(response(400, validation'.error)) /\ Step("schema invalid")
       ELSE pc' = "send" /\ Step("schema valid") /\ UNCHANGED resp
    /\ UNCHANGED <<reqNo, event, buffer, parsed, valid, queue, bundleVars,
                   harnessVars, envVars>>

\* The message the handler sends for a buffer: the bytes as base64.  src is
\* history: the request the message comes from and the buffer it verified.
Message(buf, n) == [id |-> n, body |-> toStringBase64(buf), src |-> buf]

\* await sqsClient.send(...); return 200 {id}.  The send succeeds, or it
\* throws and the generic catch answers 500; a send that throws may or may
\* not have put the message on the queue.
Send ==
    /\ pc = "send"
    /\ \E outcome \in {"sent", "failed", "failed after enqueue"} :
          /\ queue' = IF outcome = "failed" THEN queue
                      ELSE Append(queue, Message(buffer, reqNo))
          /\ Step(outcome)
          /\ IF outcome = "sent" THEN Return(response(200, parsed.id))
             ELSE Return(genericCatch(parsed.id))
    /\ UNCHANGED <<reqNo, event, handlerLocals, bundleVars, harnessVars, envVars>>

-----------------------------------------------------------------------------
(* KMS signing (lib/kms-signer.ts) and the bundle handler *)

\* config.kmsKeyArn
KMS_KEY_ARN == "arn:aws:kms:key/bundler"

\* Another key of the account
OTHER_KEY_ARN == "arn:aws:kms:key/other"

\* The keys getOwnerModulus is called for
KeyArns == {KMS_KEY_ARN, OTHER_KEY_ARN}

\* The modulus of a KMS key, as the JWK export gives it: each key has its own
kmsModulus(kmsKeyArn) ==
    Fill(OWNER_LENGTH, IF kmsKeyArn = KMS_KEY_ARN THEN 75 ELSE 76)

\* A test of the cache that does not look at the key
cacheHit_anyKey(owner, keyArn, kmsKeyArn) == owner # <<>>

\* cachedOwner && cachedKeyArn === kmsKeyArn
cacheHit(owner, keyArn, kmsKeyArn) == owner # <<>> /\ keyArn = <<kmsKeyArn>>

\* The signature KMS returns for its n-th Sign call
kmsSignature(n) == [i \in 1..SIG_LENGTH |-> IF i = 1 THEN 200 + n ELSE 83]

\* tx.getSignatureData(): the digest of the transaction's fields
getSignatureData(t) == sha384(<<t.owner, t.tags, t.data>>)

\* tx.setOwner(owner)
setOwner(t, owner) == [t EXCEPT !.owner = owner]

\* A setSignature that leaves the id as it was
setSignature_noId(t, id, owner, signature) ==
    [t EXCEPT !.owner = owner, !.signature = signature]

\* tx.setSignature({id, owner, signature})
setSignature(t, id, owner, signature) ==
    [t EXCEPT !.id = id, !.owner = owner, !.signature = signature]

\* The batches SQS can hand over: up to MaxBatch messages of the queue, in
\* any order
Batches(q) ==
    {b \in UNION {[1..n -> 1..Len(q)] : n \in 1..Min(MaxBatch, Len(q))} :
        \A i, j \in 1..Len(b) : i # j => b[i] # b[j]}

\* The queue without the records of a batch
withoutRecords(q, recs) ==
    SelectSeq(q, LAMBDA m : \A i \in 1..Len(recs) : recs[i].id # m.id)

verifyVars == <<reqNo, event, pc, buffer, parsed, valid, validation, resp, trail>>

\* A decoding of the records that returns the blobs in reverse order
decodeRecords_reversed(recs) ==
    [i \in 1..Len(recs) |-> fromBase64(recs[Len(recs) + 1 - i].body)]

\* event.Records.map((record) => Buffer.from(record.body, "base64"))
decodeRecords(recs) == [i \in 1..Len(recs) |-> fromBase64(recs[i].body)]

\* The handler is invoked with a batch; it decodes the records and assembles
\* the bundle
BundleReceive ==
    /\ bpc = "idle"
    /\ \E b \in Batches(queue) :
          /\ records' = [i \in 1..Len(b) |-> queue[b[i]]]
          /\ dataItems' = decodeRecords([i \in 1..Len(b) |-> queue[b[i]]])
    /\ tx' = <<>>
    /\ bpc' = "create"
    /\ UNCHANGED <<verifyVars, queue, cachedOwner, cachedKeyArn, kmsLog, console, posted,
                   harnessVars, envVars>>

\* tx = await arweave.createTransaction({data}); tx.addTag(...) twice.  The
\* call asks the gateway for an anchor and a price and can fail.
BundleCreate ==
    /\ bpc = "create"
    /\ \/ /\ tx' = <<[data |-> assembleBundle(dataItems),
                      tags |-> << Tag("Bundle-Format", "binary"),
                                  Tag("Bundle-Version", "2.0.0") >>,
                      owner |-> <<>>, signature |-> <<>>, id |-> <<>>]>>
          /\ bpc' = "owner"
       \/ /\ bpc' = "failed"
          /\ UNCHANGED tx
    /\ UNCHANGED <<verifyVars, queue, records, dataItems, cachedOwner, cachedKeyArn,
                   kmsLog, console, posted, harnessVars, envVars>>

\* owner = await getOwnerModulus(kmsKeyArn); tx.setOwner(ownerB64)
GetOwner ==
    /\ bpc = "owner"
    /\ IF cacheHit(cachedOwner, cachedKeyArn, KMS_KEY_ARN)
       THEN /\ tx' = <<setOwner(tx[1], toStringBase64url(cachedOwner[1]))>>
            /\ bpc' = "sign"
            /\ UNCHANGED <<cachedOwner, cachedKeyArn>>
       ELSE \/ /\ cachedOwner' = <<kmsModulus(KMS_KEY_ARN)>>
               /\ cachedKeyArn' = <<KMS_KEY_ARN>>
               /\ tx' = <<setOwner(tx[1], toStringBase64url(cachedOwner'[1]))>>
               /\ bpc' = "sign"
            \/ /\ bpc' = "failed"
               /\ UNCHANGED <<tx, cachedOwner, cachedKeyArn>>
    /\ UNCHANGED <<verifyVars, queue, records, dataItems, kmsLog, console, posted,
                   harnessVars, envVars>>

\* signatureData = await tx.getSignatureData(); signature = await kmsSign(...);
\* tx.setSignature({id, owner, signature})
Sign ==
    /\ bpc = "sign"
    /\ \/ \E signatureData \in {getSignatureData(tx[1])},
                signature \in {kmsSignature(Len(kmsLog) + 1)} :
              /\ kmsLog' = Append(kmsLog, [keyId |-> KMS_KEY_ARN,
                                           message |-> signatureData,
                                           signature |-> signature])
              /\ tx' = <<setSignature(tx[1], toStringBase64url(sha256(signature)),
                                       tx[1].owner, toStringBase64url(signature))>>
              /\ bpc' = "signed"
       \/ /\ bpc' = "failed"
          /\ UNCHANGED <<tx, kmsLog>>
    /\ UNCHANGED <<verifyVars, queue, records, dataItems, cachedOwner, cachedKeyArn,
                   console, posted, harnessVars, envVars>>

\* if (config.dryRun) return; the submission is disabled, so the handler
\* returns without posting either way and SQS deletes the batch
Finish ==
    /\ bpc = "signed"
    /\ console' = IF configDryRun THEN "[DRY RUN] Bundle ready but not submitted"
                  ELSE "[SUBMIT DISABLED] Bundle signed but not submitted"
    /\ queue' = withoutRecords(queue, records)
    /\ bpc' = "idle"
    /\ records' = <<>> /\ dataItems' = <<>> /\ tx' = <<>>
    /\ UNCHANGED <<verifyVars, cachedOwner, cachedKeyArn, kmsLog, posted,
                   harnessVars, envVars>>

\* The handler threw: the batch stays on the queue
BundleFail ==
    /\ bpc = "failed"
    /\ bpc' = "idle"
    /\ records' = <<>> /\ dataItems' = <<>> /\ tx' = <<>>
    /\ UNCHANGED <<verifyVars, queue, cachedOwner, cachedKeyArn, kmsLog, console,
                   posted, harnessVars, envVars>>

-----------------------------------------------------------------------------
(* The verify handler on its own, and the system of both handlers with the *)
(* queue between them                                                      *)

Init ==
    /\ \E env \in Environments :
          envApiKey = env.API_KEY /\ envDryRun = env.DRY_RUN
    /\ reqNo = 0
    /\ event = <<>>
    /\ pc = "idle"
    /\ buffer = <<>> /\ parsed = <<>> /\ valid = FALSE /\ validation = <<>>
    /\ resp = <<>>
    /\ queue = <<>>
    /\ trail = <<>>
    /\ bpc = "idle"
    /\ records = <<>> /\ dataItems = <<>> /\ tx = <<>>
    /\ cachedOwner = <<>> /\ cachedKeyArn = <<>>
    /\ kmsLog = <<>>
    /\ console = ""
    /\ posted = <<>>
    /\ vin = <<>> /\ vout = <<>> /\ edits = 0 /\ vbefore = <<>> /\ vedit = ""
    /\ pin = <<>> /\ pout = <<>> /\ pedits = 0
    /\ ain = <<>> /\ aout = <<>>
    /\ calls = <<>> /\ lastIndex = [p \in Patterns |-> 0]
    /\ ownerCalls = <<>>

Next ==
    \/ Receive
    \/ Auth
    \/ ReadBody
    \/ Parse
    \/ Verify
    \/ Validate
    \/ Send

Spec == Init /\ [][Next]_vars

NextPipeline ==
    \/ PipelineReceive
    \/ Auth
    \/ ReadBody
    \/ Parse
    \/ Verify
    \/ Validate
    \/ Send
    \/ BundleReceive
    \/ BundleCreate
    \/ GetOwner
    \/ Sign
    \/ Finish
    \/ BundleFail

SpecPipeline == Init /\ [][NextPipeline]_vars

-----------------------------------------------------------------------------
(* validateDataItem on its own: calls whose arguments are those of a valid  *)
(* DataItem of the SDK after up to MaxEdits changes                         *)

\* The arguments of a call. The payload is given by the members of its JSON
\* object, or, when raw is set, by its text.
Arguments(signatureType, tags, members, totalSize) ==
    [signatureType |-> signatureType, tags |-> tags, members |-> members,
     raw |-> <<>>, totalSize |-> totalSize, target |-> <<>>, anchor |-> <<>>]

\* The arguments the verify handler passes for IT_OK and for IT_OK2
ARGS_OK == Arguments(1, TAGS_OK, BODY_OK, Len(wire(IT_OK)))

ARGS_OK2 ==
    Arguments(1, sdkTags(HEX_B, HEX_A, UUID_UPPER, SEQ_17, AT_Z, DATE_B, SDK_100),
              sdkBody(HEX_B, HEX_A, AT_Z, SDK_100), Len(wire(IT_OK2)))

\* The payload bytes of a call
rawDataOf(v) == IF v.raw = <<>> THEN payload(stringify(v.members)) ELSE v.raw[1]

\* validateDataItem applied to the arguments of a call
validateCall(v) ==
    validateDataItem(v.signatureType, v.tags, rawDataOf(v), v.totalSize,
                     v.target, v.anchor)

\* "0.10.0"
SDK_0100 == <<48, 46, 49, 48, 46, 48>>

\* The values an edit may give to the tag of a name
TagAlternatives(name) ==
    IF name = S_AppName THEN {S_other_app}
    ELSE IF name = S_ContentType THEN {S_TextPlain}
    ELSE IF name = S_Hash THEN {HEX_A, HEX_B, HEX_UPPER}
    ELSE IF name = S_Namespace THEN {HEX_A, HEX_B, HEX_SHORT}
    ELSE IF name = S_SessionID THEN {UUID_A, UUID_BAD}
    ELSE IF name = S_Sequence THEN {SEQ_LEADING_ZERO, <<>>}
    ELSE IF name = S_NotarizedAt THEN {AT_NO_ZONE, AT_A}
    ELSE IF name = S_NotarizedDateUTC THEN {DATE_A, DATE_BAD}
    ELSE IF name = S_SDKVersion THEN {SDK_BETA, SDK_019, SDK_020, SDK_0100}
    ELSE {S_x}

\* The values an edit may give to the member of a key
MemberAlternatives(k) ==
    IF k = S_hash THEN {Str(HEX_A), Str(HEX_B), Raw(S_null)}
    ELSE IF k = S_namespace THEN {Str(HEX_A), Str(HEX_B), Str(HEX_SHORT)}
    ELSE IF k = S_notarized_at THEN {Str(AT_A), Str(AT_NO_ZONE)}
    ELSE IF k = S_sdk_version
    THEN {Str(SDK_020), Str(SDK_BETA), Str(SDK_019), Str(SDK_0100)}
    ELSE IF k = S_v THEN {Raw(S_1), Str(S_x)}
    ELSE {Str(S_x)}

\* Payload texts that are not an object of members: an array, null, a
\* number, and an object that does not end
RawTexts == {<<91, 93>>, S_null, S_1, <<123>>}

RemoveAt(s, i) == SubSeq(s, 1, i - 1) \o SubSeq(s, i + 1, Len(s))

\* An edit named kind replaces the arguments by next
Edit(kind, next) ==
    /\ vin # <<>> /\ vout = <<>> /\ edits < MaxEdits
    /\ vin' = next
    /\ vbefore' = vin
    /\ vedit' = kind
    /\ edits' = edits + 1
    /\ UNCHANGED <<vout, reqNo, event, pc, handlerLocals, resp, queue, trail,
                   bundleVars, envVars, parseVars, assembleVars,
                   callVars>>

SetTagValue ==
    \E i \in 1..Len(vin.tags) : \E value \in TagAlternatives(vin.tags[i].name) :
        /\ value # vin.tags[i].value
        /\ Edit("set tag", [vin EXCEPT !.tags[i].value = value])

RemoveTag ==
    \E i \in 1..Len(vin.tags) :
        Edit("remove tag", [vin EXCEPT !.tags = RemoveAt(vin.tags, i)])

\* a tag of a new name, or a second tag of a name already present
AddTag ==
    /\ vin # <<>>
    /\ \E tag \in {Tag(S_Extra, S_x)} \cup {vin.tags[i] : i \in 1..Len(vin.tags)} :
          Edit("add tag", [vin EXCEPT !.tags = Append(vin.tags, tag)])

SetMember ==
    \E i \in 1..Len(vin.members) : \E value \in MemberAlternatives(vin.members[i].k) :
        /\ vin.raw = <<>>
        /\ value # vin.members[i].v
        /\ Edit("set field", [vin EXCEPT !.members[i].v = value])

RemoveMember ==
    \E i \in 1..Len(vin.members) :
        /\ vin.raw = <<>>
        /\ Edit("remove field", [vin EXCEPT !.members = RemoveAt(vin.members, i)])

\* a member of a new key, or a second member of a key already present with
\* the same or another value, written after or before the others
AddMember ==
    /\ vin # <<>> /\ vin.raw = <<>>
    /\ \E m \in {Member(S_extra, Str(S_x))}
                \cup {vin.members[i] : i \in 1..Len(vin.members)}
                \cup {Member(vin.members[i].k, Str(S_x)) : i \in 1..Len(vin.members)} :
          \/ Edit("add field", [vin EXCEPT !.members = Append(vin.members, m)])
          \/ Edit("add field", [vin EXCEPT !.members = <<m>> \o vin.members])

SetRaw ==
    \E text \in RawTexts :
        /\ vin # <<>> /\ vin.raw = <<>>
        /\ Edit("set payload", [vin EXCEPT !.raw = <<payload(text)>>])

SetSize ==
    \E size \in {MAX_DATA_ITEM_SIZE, MAX_DATA_ITEM_SIZE + 1} :
        /\ vin # <<>> /\ size # vin.totalSize
        /\ Edit("set size", [vin EXCEPT !.totalSize = size])

SetSignatureType ==
    /\ vin # <<>> /\ vin.signatureType = 1
    /\ Edit("set signature type", [vin EXCEPT !.signatureType = 2])

SetTarget ==
    /\ vin # <<>> /\ vin.target = <<>>
    /\ \E b \in {0, 7} :
          Edit("set target", [vin EXCEPT !.target = <<bufferToBase64url(field32(b))>>])

SetAnchor ==
    /\ vin # <<>> /\ vin.anchor = <<>>
    /\ \E s \in {S_x, stripTrailingNuls(toStringUtf8(field32(7)))} :
          Edit("set anchor", [vin EXCEPT !.anchor = <<s>>])

Call ==
    /\ vin # <<>> /\ vout = <<>>
    /\ vout' = <<validateCall(vin)>>
    /\ UNCHANGED <<vin, edits, vbefore, vedit, reqNo, event, pc, handlerLocals,
                   resp, queue, trail, bundleVars, envVars, parseVars, assembleVars,
                   callVars>>

InitValidate ==
    /\ envApiKey = <<>> /\ envDryRun = <<>>
    /\ reqNo = 0
    /\ event = <<>>
    /\ pc = "idle"
    /\ buffer = <<>> /\ parsed = <<>> /\ valid = FALSE /\ validation = <<>>
    /\ resp = <<>>
    /\ queue = <<>>
    /\ trail = <<>>
    /\ bpc = "idle"
    /\ records = <<>> /\ dataItems = <<>> /\ tx = <<>>
    /\ cachedOwner = <<>> /\ cachedKeyArn = <<>>
    /\ kmsLog = <<>>
    /\ console = ""
    /\ posted = <<>>
    /\ vin \in {ARGS_OK, ARGS_OK2}
    /\ vout = <<>> /\ edits = 0 /\ vbefore = <<>> /\ vedit = ""
    /\ pin = <<>> /\ pout = <<>> /\ pedits = 0
    /\ ain = <<>> /\ aout = <<>>
    /\ calls = <<>> /\ lastIndex = [p \in Patterns |-> 0]
    /\ ownerCalls = <<>>

NextValidate ==
    \/ SetTagValue
    \/ RemoveTag
    \/ AddTag
    \/ SetMember
    \/ RemoveMember
    \/ AddMember
    \/ SetRaw
    \/ SetSize
    \/ SetSignatureType
    \/ SetTarget
    \/ SetAnchor
    \/ Call

SpecValidate == InitValidate /\ [][NextValidate]_vars

-----------------------------------------------------------------------------
(* Properties of the verify handler *)

Last(s) == s[Len(s)]

\* The handler has answered the current request, and the status it answered
answered == resp # <<>>

statusCode == resp[1].statusCode

\* The current request has taken the step of a name
Stepped(name) == \E i \in 1..Len(trail) : trail[i] = name

\* The queue positions of the messages sent for request n
sentBy(n) == {i \in 1..Len(queue) : queue[i].id = n}

\* validateDataItem has returned for the current request
validated == Stepped("schema valid") \/ Stepped("schema invalid")

\* The steps of a request before its send
ChecksInOrder == <<"auth", "body", "parsed", "signature valid", "schema valid">>

\* C1: a message is on the queue only if its bytes decode, carry a signature
\* of their owner over their fields and pass validateDataItem, and the request
\* that sent it passed the key check, the decoder, the verifier and the
\* validator in this order; a request answered 401 or 400, or 500 for a send
\* that did not enqueue, has no message on the queue.
C1_SendOnlyAfterAllChecks ==
    /\ \A i \in 1..Len(queue) :
          /\ parseDataItem(queue[i].src).outcome = "ok"
          /\ verifyDataItem(parseDataItem(queue[i].src).sigBytes,
                            parseDataItem(queue[i].src).ownerBytes,
                            parseDataItem(queue[i].src).targetBytes,
                            parseDataItem(queue[i].src).anchorBytes,
                            parseDataItem(queue[i].src).tagBytes,
                            parseDataItem(queue[i].src).rawData)
          /\ validateDataItem(parseDataItem(queue[i].src).signatureType,
                              parseDataItem(queue[i].src).tags,
                              parseDataItem(queue[i].src).rawData,
                              Len(queue[i].src),
                              parseDataItem(queue[i].src).target,
                              parseDataItem(queue[i].src).anchor).valid
          /\ queue[i].id = reqNo =>
                /\ configApiKey # <<>> => event.key = configApiKey
                /\ Len(trail) > 5 /\ SubSeq(trail, 1, 5) = ChecksInOrder
                /\ queue[i].src = buffer
    /\ answered /\ statusCode \in {400, 401} => sentBy(reqNo) = {}
    /\ answered /\ statusCode = 500 /\ Last(trail) = "failed" => sentBy(reqNo) = {}

\* A request with a configured key was answered 200 and its message is queued
C1_Sent ==
    /\ answered /\ statusCode = 200
    /\ configApiKey # <<>>
    /\ sentBy(reqNo) # {}

\* C3: the answer is 200 only after the send succeeded, and then the message
\* is on the queue and the answered id is the id parseDataItem computes for
\* the bytes of the message; after a send that failed the answer is 500.
C3_OkOnlyAfterSend ==
    /\ answered /\ statusCode = 200 =>
          /\ Last(trail) = "sent"
          /\ \E i \in sentBy(reqNo) :
                /\ queue[i].src = buffer
                /\ resp[1].body = parseDataItem(fromBase64(queue[i].body)).id
    /\ answered /\ Last(trail) \in {"failed", "failed after enqueue"} =>
          statusCode = 500

\* A send failed although the message reached the queue, and the answer is 500
C3_SendFailed ==
    /\ answered /\ statusCode = 500
    /\ Last(trail) = "failed after enqueue"
    /\ sentBy(reqNo) # {}

\* C4: a request that passed the key check and has a body is answered 400
\* with the error when the decoder throws, when the signature is invalid and
\* when the validator rejects; 500 is answered for a failed send only.
C4_FailuresAre400 ==
    answered /\ Stepped("body") =>
        /\ Last(trail) = "parse threw" =>
              /\ statusCode = 400
              /\ resp[1].body = <<"Invalid DataItem", parseDataItem(buffer).error>>
        /\ Last(trail) = "signature invalid" =>
              /\ statusCode = 400
              /\ resp[1].body = "DataItem signature verification failed"
        /\ Last(trail) = "schema invalid" =>
              /\ statusCode = 400
              /\ resp[1].body = validation.error
        /\ statusCode = 500 => Last(trail) \in {"failed", "failed after enqueue"}

\* The decoder threw on a read beyond the end of the buffer: answered 400
C4_DecoderThrew ==
    /\ answered /\ statusCode = 400
    /\ Last(trail) = "parse threw"
    /\ parseDataItem(buffer).error = "RangeError"

\* C5: with a key configured, a request whose x-api-key header is missing or
\* differs from the key is answered 401 at its first step, with no body read,
\* nothing parsed and nothing sent; with no key configured (unset or empty)
\* no request is answered 401.
C5_KeyCheck ==
    /\ configApiKey # <<>> /\ trail # <<>> /\ event.key # configApiKey =>
          /\ trail = <<"unauthorized">>
          /\ answered /\ statusCode = 401
          /\ buffer = <<>> /\ parsed = <<>>
          /\ sentBy(reqNo) = {}
    /\ configApiKey = <<>> => ~(answered /\ statusCode = 401)

\* A header as long as the key, in bytes, that differs from it: answered 401
C5_WrongKey ==
    /\ configApiKey = <<S_secret>>
    /\ event # <<>> /\ event.key = <<S_accent>>
    /\ answered /\ statusCode = 401

\* C9: validateDataItem returns the size error exactly for the requests
\* whose whole buffer is longer than 12,288 bytes.
C9_SizeCeiling ==
    validated =>
        (Len(buffer) > 12288
            <=> validation = fail("DataItem exceeds maximum size"))

\* A buffer of 12,289 bytes whose payload is shorter than 12,288 bytes is
\* rejected for its size
C9_OneByteOver ==
    /\ validated
    /\ Len(buffer) = 12289 /\ Len(parsed.rawData) < 12288
    /\ validation = fail("DataItem exceeds maximum size")

\* The buffer's target flag is 1
targetFlagged == flagSet(buffer, FLAGS_START)

\* C10 as stated: a buffer with target flag 1 that parseDataItem decodes is
\* reported with its target, and validateDataItem then returns the target
\* error.
C10_TargetAlwaysRejected ==
    /\ Stepped("parsed") /\ targetFlagged =>
          parsed.target
              = <<bufferToBase64url(subarray(buffer, FLAGS_START + 1,
                                             FLAGS_START + 1 + FIELD_LENGTH))>>
    /\ validated /\ targetFlagged =>
          validation = fail("DataItem must not have a target field")

\* C10, for buffers of at most 12,288 bytes: a buffer with target flag 1
\* that parseDataItem decodes is reported with its target, and
\* validateDataItem then returns the target error.
C10_TargetRejectedWithinSize ==
    /\ Stepped("parsed") /\ targetFlagged =>
          parsed.target
              = <<bufferToBase64url(subarray(buffer, FLAGS_START + 1,
                                             FLAGS_START + 1 + FIELD_LENGTH))>>
    /\ validated /\ targetFlagged /\ Len(buffer) <= 12288 =>
          validation = fail("DataItem must not have a target field")

\* A signed DataItem with a target of 32 bytes of value 7 was rejected for
\* its target
C10_TargetSeven ==
    /\ validated /\ targetFlagged
    /\ parsed.targetBytes = <<field32(7)>>
    /\ validation = fail("DataItem must not have a target field")

-----------------------------------------------------------------------------
(* Properties of the path from the verify handler to the bundle *)

\* C2: the body of every message decodes to the buffer the verify handler
\* checked and sent; the i-th blob of the bundle handler is the buffer of the
\* i-th record of its batch, and the bundle is assembled from these buffers
\* in this order.
C2_BytePreservation ==
    /\ \A i \in 1..Len(queue) :
          /\ fromBase64(queue[i].body) = queue[i].src
          /\ queue[i].id = reqNo => queue[i].src = buffer
    /\ Len(dataItems) = Len(records)
    /\ \A i \in 1..Len(records) : dataItems[i] = records[i].src
    /\ tx # <<>> =>
          tx[1].data = assembleBundle([i \in 1..Len(records) |-> records[i].src])

\* A bundle of a batch of two records with different bytes
C2_BatchOfTwo ==
    /\ Len(records) = 2
    /\ records[1].src # records[2].src
    /\ tx # <<>>

-----------------------------------------------------------------------------
(* Properties of validateDataItem *)

NineTagNames ==
    {S_AppName, S_ContentType, S_Hash, S_Namespace, S_SessionID, S_Sequence,
     S_NotarizedAt, S_NotarizedDateUTC, S_SDKVersion}

FiveFieldNames == {S_hash, S_namespace, S_notarized_at, S_sdk_version, S_v}

\* The values of the tags of a name, and of the members of a key of a parsed
\* object
tagValues(tags, name) == {tags[i].value : i \in {j \in 1..Len(tags) : tags[j].name = name}}

fieldValues(obj, k) ==
    {obj.members[i].v : i \in {j \in 1..Len(obj.members) : obj.members[j].k = k}}

\* The parsed payload of a call
bodyOf(v) == JSONparse(toStringUtf8(rawDataOf(v)))

\* The parsed payload is an object
IsObject(doc) == doc.ok /\ doc.val.t = "object"

\* The one tag of a name and the field of a key of the parsed payload carry
\* the same string
SameValue(tags, doc, name, k) ==
    /\ IsObject(doc)
    /\ \E s \in tagValues(tags, name) :
          /\ tagValues(tags, name) = {s}
          /\ fieldValues(doc.val, k) = {Str(s)}

\* C6: when validateDataItem returns valid, the tags are nine, their names
\* are the nine names of the schema, the payload is an object of the five
\* fields of the schema, and the Hash, Namespace, Notarized-At and
\* SDK-Version tags equal the hash, namespace, notarized_at and sdk_version
\* fields.
C6_SchemaTotality ==
    vout # <<>> /\ vout[1].valid =>
        /\ Len(vin.tags) = 9
        /\ {vin.tags[i].name : i \in 1..Len(vin.tags)} = NineTagNames
        /\ IsObject(bodyOf(vin))
        /\ Len(bodyOf(vin).val.members) = 5
        /\ {bodyOf(vin).val.members[i].k : i \in 1..5} = FiveFieldNames
        /\ SameValue(vin.tags, bodyOf(vin), S_Hash, S_hash)
        /\ SameValue(vin.tags, bodyOf(vin), S_Namespace, S_namespace)
        /\ SameValue(vin.tags, bodyOf(vin), S_NotarizedAt, S_notarized_at)
        /\ SameValue(vin.tags, bodyOf(vin), S_SDKVersion, S_sdk_version)

\* Accepted after a tag and the field of the body that goes with it were
\* given another value
C6_AcceptedAfterEdits ==
    /\ vout # <<>> /\ vout[1].valid
    /\ edits = 2 /\ vedit = "set field"
    /\ vin.tags # ARGS_OK.tags /\ vin.tags # ARGS_OK2.tags

\* C7: when the arguments before the last edit are accepted and the edit
\* added a tag, removed a tag or added a field to the body, validateDataItem
\* rejects.
C7_RejectionMonotonicity ==
    /\ vout # <<>>
    /\ vedit \in {"add tag", "remove tag", "add field"}
    /\ validateCall(vbefore).valid
    => ~vout[1].valid

\* The errors of the rules, in the order of C8
RuleErrors ==
    << "DataItem exceeds maximum size",
       "Invalid signature type",
       "DataItem must not have a target field",
       "DataItem must not have an anchor field",
       "Expected exactly 9 tags",
       "Duplicate tag",
       "Invalid or missing App-Name tag",
       "Invalid or missing Content-Type tag",
       "Invalid or missing Hash tag",
       "Invalid or missing Namespace tag",
       "Invalid or missing Session-ID tag",
       "Invalid or missing Sequence tag",
       "Invalid or missing Notarized-At tag",
       "Invalid or missing Notarized-Date-UTC tag",
       "Invalid or missing SDK-Version tag",
       "SDK-Version is below minimum",
       "Notarized-Date-UTC does not match date in Notarized-At",
       "Data payload is not valid JSON",
       "Data payload must be a JSON object",
       "Expected exactly 5 fields in body",
       "Invalid or missing body field hash",
       "Invalid or missing body field namespace",
       "Invalid or missing body field notarized_at",
       "Invalid or missing body field sdk_version",
       "Invalid or missing body field v",
       "Hash tag does not match body hash",
       "Namespace tag does not match body namespace",
       "Notarized-At tag does not match body notarized_at",
       "SDK-Version tag does not match body sdk_version" >>

\* The one tag of a name is a non-empty string of a pattern
TagConforms(tags, name, pattern(_)) ==
    \E s \in tagValues(tags, name) :
        tagValues(tags, name) = {s} /\ s # <<>> /\ pattern(s)

\* The field of a key of the parsed payload is a string of a pattern
FieldConforms(doc, k, pattern(_)) ==
    /\ IsObject(doc)
    /\ \E x \in fieldValues(doc.val, k) : x.t = "string" /\ pattern(x.s)

IsAppName(s) == s = S_agentsystems_notary

IsJson(s) == s = S_application_json

\* A version of three numbers below 0.2.0
BelowMinimum(s) ==
    SEMVER(s) /\ parseSemver(s)[1][1] = 0 /\ parseSemver(s)[1][2] < 2

\* For each rule, in the order of C8, whether a call with a parsed payload
\* violates it
ViolationsWith(v, doc) ==
    << v.totalSize > 12288,
       v.signatureType # 1,
       v.target # <<>>,
       v.anchor # <<>>,
       Len(v.tags) # 9,
       \E i, j \in 1..Len(v.tags) : i # j /\ v.tags[i].name = v.tags[j].name,
       ~TagConforms(v.tags, S_AppName, IsAppName),
       ~TagConforms(v.tags, S_ContentType, IsJson),
       ~TagConforms(v.tags, S_Hash, SHA256_HEX),
       ~TagConforms(v.tags, S_Namespace, SHA256_HEX),
       ~TagConforms(v.tags, S_SessionID, UUID),
       ~TagConforms(v.tags, S_Sequence, NON_NEGATIVE_INT),
       ~TagConforms(v.tags, S_NotarizedAt, ISO8601),
       ~TagConforms(v.tags, S_NotarizedDateUTC, DATE_UTC),
       ~TagConforms(v.tags, S_SDKVersion, SEMVER),
       TagConforms(v.tags, S_SDKVersion, BelowMinimum),
       \E d \in tagValues(v.tags, S_NotarizedDateUTC) :
           \E at \in tagValues(v.tags, S_NotarizedAt) :
               d # SubSeq(at, 1, Min(10, Len(at))),
       ~doc.ok,
       doc.ok /\ doc.val.t # "object",
       IsObject(doc) /\ Len(doc.val.members) # 5,
       ~FieldConforms(doc, S_hash, SHA256_HEX),
       ~FieldConforms(doc, S_namespace, SHA256_HEX),
       ~FieldConforms(doc, S_notarized_at, ISO8601),
       ~FieldConforms(doc, S_sdk_version, SEMVER),
       ~FieldConforms(doc, S_v, IsOne),
       ~SameValue(v.tags, doc, S_Hash, S_hash),
       ~SameValue(v.tags, doc, S_Namespace, S_namespace),
       ~SameValue(v.tags, doc, S_NotarizedAt, S_notarized_at),
       ~SameValue(v.tags, doc, S_SDKVersion, S_sdk_version) >>

\* The rules a call violates
violated(v) ==
    Bind(bodyOf(v), LAMBDA doc :
        Bind(ViolationsWith(v, doc), LAMBDA viol :
            {k \in 1..Len(RuleErrors) : viol[k]}))

\* The result the rules prescribe: the error of the first rule violated
prescribed(viol) ==
    IF viol = {} THEN [valid |-> TRUE]
    ELSE fail(RuleErrors[CHOOSE k \in viol : \A m \in viol : k <= m])

\* C8: the result of validateDataItem is the error of the first rule, in the
\* order of the rules, that the arguments violate, and valid when they
\* violate none.
C8_FirstFailingCheck ==
    vout # <<>> => vout[1] = Bind(violated(vin), LAMBDA viol : prescribed(viol))

\* Arguments with a target and an anchor: the target error is returned
C8_TargetAndAnchor ==
    /\ vout # <<>>
    /\ {3, 4} \subseteq violated(vin)
    /\ vout[1] = fail("DataItem must not have a target field")

-----------------------------------------------------------------------------
(* The decoder on its own: parseDataItem called on buffers that no client
   library built.  A buffer starts as the wire form of an item, is changed
   by at most MaxByteEdits edits, and is then decoded once. *)

MaxByteEdits == 1

\* A small item whose header declares count tags over the tag region bytes
Region(n, count, bytes) ==
    [n |-> n, owner |-> OWNER_A, target |-> <<>>, anchor |-> <<>>,
     tagCount |-> count, tagBytes |-> bytes, data |-> <<123, 125>>,
     signed |-> FALSE]

\* No bytes at all; only the end marker
R_EMPTY == Region(20, 0, <<>>)

R_END == Region(21, 0, <<0>>)

\* A block count of -2, the block's byte size, two pairs, the end marker
R_NEGATIVE == Region(22, 2, <<3, 16, 2, 97, 2, 98, 2, 99, 2, 100, 0>>)

\* Two blocks of one pair each
R_BLOCKS == Region(23, 2, <<2, 2, 97, 2, 98, 2, 2, 99, 2, 100, 0>>)

\* The value's length is 10 and one byte follows
R_SHORT_VALUE == Region(24, 1, <<2, 2, 97, 20, 98>>)

\* The region ends where the value's length should be
R_SHORT_LONG == Region(25, 1, <<2, 2, 97>>)

\* The value is the byte 0xff
R_BAD_UTF8 == Region(26, 1, <<2, 2, 97, 2, 255, 0>>)

\* One pair and no end marker
R_NO_END == Region(27, 1, <<2, 2, 97, 2, 98>>)

\* An item of signature type 3
R_TYPE == assembleDataItem(3, signatureNo(29), OWNER_A, <<>>, <<>>, 0, <<0>>, <<123, 125>>)

\* Target and anchor both present
R_BOTH == [Region(28, 1, <<2, 2, 97, 2, 98, 0>>)
              EXCEPT !.target = <<field32(7)>>, !.anchor = <<field32(9)>>]

\* One pair with an empty name and a value length of -3, which takes the
\* offset back to the start of the region
R_BACK == Region(30, 1, <<2, 0, 5>>)

ParseInputs ==
    {wire(it) : it \in {IT_OK, IT_TARGET(7), IT_ANCHOR(7), IT_COUNT, R_EMPTY,
                        R_END, R_NEGATIVE, R_BLOCKS, R_SHORT_VALUE,
                        R_SHORT_LONG, R_BAD_UTF8, R_NO_END, R_BOTH, R_BACK}}
    \cup {R_TYPE}

\* The offsets an edit writes to: the signature type, the first bytes of the
\* signature and of the owner, both flags, the low bytes of the tag count
\* and of the tag length, and the first bytes of the tag region
ByteOffsets(buf) ==
    {0, 1, SIG_OFFSET, OWNER_OFFSET, FLAGS_START, anchorFlagOffset(buf)}
    \cup {countOffset(buf) + k : k \in {0, 8, 16, 17, 19, 20}}

ByteValues == {0, 1, 2, 255}

\* The lengths an edit cuts the buffer to
CutLengths(buf) ==
    {0, 1, 2, OWNER_OFFSET, FLAGS_START, FLAGS_START + 1, FLAGS_START + 2,
     anchorFlagOffset(buf) + 1, anchorFlagOffset(buf) + 2}
    \cup {countOffset(buf) + k : k \in {0 - 1, 0, 8, 15, 16, 17}}
    \cup {Len(buf) - 1, Len(buf) - 2}

\* The tag lengths an edit declares: nothing, one byte more than the rest of
\* the buffer holds, and far more
DeclaredLengths(buf) == {0, Len(buf) - countOffset(buf) - 15, 4096}

ByteEdit(next) ==
    /\ pin # <<>> /\ pout = <<>> /\ pedits < MaxByteEdits
    /\ next # pin
    /\ pin' = next
    /\ pedits' = pedits + 1
    /\ UNCHANGED <<pout, reqNo, event, pc, handlerLocals, resp, queue, trail,
                   bundleVars, envVars, validateVars, assembleVars,
                   callVars>>

SetByte ==
    \E off \in ByteOffsets(pin), b \in ByteValues :
        /\ off < Len(pin)
        /\ ByteEdit([pin EXCEPT ![off + 1] = b])

Truncate ==
    \E n \in CutLengths(pin) :
        /\ n >= 0 /\ n < Len(pin)
        /\ ByteEdit(SubSeq(pin, 1, n))

SetTagLength ==
    \E n \in DeclaredLengths(pin), oL \in {countOffset(pin) + 8} :
        /\ oL + 8 <= Len(pin)
        /\ ByteEdit(SubSeq(pin, 1, oL) \o writeBigUInt64LE(n)
                    \o SubSeq(pin, oL + 9, Len(pin)))

CallParse ==
    /\ pin # <<>> /\ pout = <<>>
    /\ pout' = <<parseDataItem(pin)>>
    /\ UNCHANGED <<pin, pedits, reqNo, event, pc, handlerLocals, resp, queue,
                   trail, bundleVars, envVars, validateVars, assembleVars,
                   callVars>>

InitParse ==
    /\ envApiKey = <<>> /\ envDryRun = <<>>
    /\ reqNo = 0
    /\ event = <<>>
    /\ pc = "idle"
    /\ buffer = <<>> /\ parsed = <<>> /\ valid = FALSE /\ validation = <<>>
    /\ resp = <<>>
    /\ queue = <<>>
    /\ trail = <<>>
    /\ bpc = "idle"
    /\ records = <<>> /\ dataItems = <<>> /\ tx = <<>>
    /\ cachedOwner = <<>> /\ cachedKeyArn = <<>>
    /\ kmsLog = <<>>
    /\ console = ""
    /\ posted = <<>>
    /\ vin = <<>> /\ vout = <<>> /\ edits = 0 /\ vbefore = <<>> /\ vedit = ""
    /\ pin \in ParseInputs
    /\ pout = <<>> /\ pedits = 0
    /\ ain = <<>> /\ aout = <<>>
    /\ calls = <<>> /\ lastIndex = [p \in Patterns |-> 0]
    /\ ownerCalls = <<>>

NextParse ==
    \/ SetByte
    \/ Truncate
    \/ SetTagLength
    \/ CallParse

SpecParse == InitParse /\ [][NextParse]_vars

\* The decoder has answered for the buffer pin
decoded == pout # <<>>

\* It answered with an error other than the unsupported signature type
failedDecode ==
    /\ pout[1].outcome = "throw"
    /\ pout[1].error # "Unsupported signature type"

\* The byte at offset off of the buffer
byteAt(buf, off) == buf[off + 1]
-----------------------------------------------------------------------------
(* Properties of the verify handler: the anchor *)

\* The buffer's anchor flag is 1
anchorFlagged == flagSet(buffer, anchorFlagOffset(buffer))

\* C11: validateDataItem never returns valid for a buffer whose anchor flag
\* is 1, and no message on the queue has an anchor on the wire.
C11_AnchorNeverAccepted ==
    /\ validated /\ anchorFlagged => ~validation.valid
    /\ \A i \in 1..Len(queue) :
          ~flagSet(queue[i].src, anchorFlagOffset(queue[i].src))

-----------------------------------------------------------------------------
(* The decoder's error cases *)

\* A flag byte of the buffer is neither 0 nor 1
badFlags(buf) ==
    /\ Len(buf) > FLAGS_START
    /\ \/ byteAt(buf, FLAGS_START) \notin {0, 1}
       \/ /\ Len(buf) > anchorFlagOffset(buf)
          /\ byteAt(buf, anchorFlagOffset(buf)) \notin {0, 1}

\* C12: parseDataItem fails for every buffer whose target flag byte or anchor
\* flag byte is neither 0 nor 1.
C12_FlagsZeroOrOne == decoded /\ badFlags(pin) => pout[1].outcome = "throw"

\* The tag length the header declares
declaredTagLength(buf) == readBigUInt64LE(buf, countOffset(buf) + 8)

\* The buffer ends before a required field is complete
incomplete(buf) ==
    \/ Len(buf) < SIG_OFFSET + SIG_LENGTH + OWNER_LENGTH
    \/ Len(buf) < FLAGS_START + 1
    \/ byteAt(buf, FLAGS_START) = 1 /\ Len(buf) < FLAGS_START + 1 + FIELD_LENGTH
    \/ Len(buf) < anchorFlagOffset(buf) + 1
    \/ /\ byteAt(buf, anchorFlagOffset(buf)) = 1
       /\ Len(buf) < anchorFlagOffset(buf) + 1 + FIELD_LENGTH
    \/ Len(buf) < countOffset(buf) + 16
    \/ Len(buf) < countOffset(buf) + 16 + declaredTagLength(buf)

\* The lengths of the fields of a decoded item, flags and counts included
fieldLengths(p) ==
    2 + Len(p.sigBytes) + Len(p.ownerBytes)
    + 1 + (IF p.targetBytes = <<>> THEN 0 ELSE Len(p.targetBytes[1]))
    + 1 + (IF p.anchorBytes = <<>> THEN 0 ELSE Len(p.anchorBytes[1]))
    + 16 + Len(p.tagBytes) + Len(p.rawData)

\* C13: parseDataItem fails for every buffer that ends before a required
\* field is complete, and the field lengths of a decoded item add up to the
\* buffer's length.
C13_ShortReadsFail ==
    decoded =>
        /\ incomplete(pin) => pout[1].outcome = "throw"
        /\ pout[1].outcome = "ok" => fieldLengths(pout[1]) = Len(pin)

\* The same for every short read but the last: the buffer holds the header,
\* the flagged fields, the tag count and the tag length
C13_HeaderComplete ==
    decoded /\ Len(pin) < countOffset(pin) + 16 => pout[1].outcome = "throw"

\* The 16-bit little-endian number in the first two bytes
typeOnWire(buf) == byteAt(buf, 0) + 256 * byteAt(buf, 1)

\* C14: every buffer whose signature type is not 1 is rejected with the
\* unsupported-signature-type error, whatever follows the type.
C14_UnsupportedType ==
    decoded /\ Len(pin) >= 2 /\ typeOnWire(pin) # 1 =>
        pout[1] = throw("Unsupported signature type")

\* A buffer of the two type bytes alone got that error
C14_TypeAlone ==
    /\ decoded /\ Len(pin) = 2 /\ typeOnWire(pin) = 3
    /\ pout[1] = throw("Unsupported signature type")

\* The header is complete and of signature type 1
headerRead(buf) == Len(buf) >= countOffset(buf) + 16 /\ typeOnWire(buf) = 1

\* The tag count the header declares
countOnWire(buf) ==
    IF \A k \in 4..8 : byteAt(buf, countOffset(buf) + k - 1) = 0
    THEN byteAt(buf, countOffset(buf)) + 256 * byteAt(buf, countOffset(buf) + 1)
         + 65536 * byteAt(buf, countOffset(buf) + 2)
    ELSE Huge

\* The pairs in the tag region of the declared length; none in an empty region
pairsOnWire(buf) ==
    IF declaredTagLength(buf) = 0 THEN [outcome |-> "ok", tags |-> <<>>]
    ELSE decodeAvroTags(subarray(buf, countOffset(buf) + 16,
                                 countOffset(buf) + 16 + declaredTagLength(buf)))

\* C15: a buffer is decoded only if its tag region holds as many pairs as
\* its header declares, and fails with the tag count mismatch otherwise; an
\* empty tag region holds no pair.
C15_TagCount ==
    decoded /\ headerRead(pin) /\ pairsOnWire(pin).outcome = "ok" =>
        IF Len(pairsOnWire(pin).tags) = countOnWire(pin)
        THEN pout[1].outcome = "ok" /\ Len(pout[1].tags) = countOnWire(pin)
        ELSE pout[1] = throw("Tag count mismatch")

\* An empty tag region under a header that declares one tag was rejected
C15_EmptyRegionOneTag ==
    /\ decoded /\ headerRead(pin)
    /\ declaredTagLength(pin) = 0 /\ countOnWire(pin) = 1
    /\ pout[1] = throw("Tag count mismatch")

\* The tag region as the header declares it
tagRegion(buf) ==
    subarray(buf, countOffset(buf) + 16, countOffset(buf) + 16 + declaredTagLength(buf))

\* Reading length-prefixed bytes at offset runs past the end of the region:
\* the length's last byte or the bytes' last byte lies outside it
bytesOverrun(buf, offset) ==
    Bind(readZigzagVarint(buf, offset), LAMBDA len :
        \/ offset + len[2] > Len(buf)
        \/ offset + len[2] + len[1] > Len(buf))

\* The offset after the length-prefixed bytes at offset
afterBytes(buf, offset) ==
    Bind(readZigzagVarint(buf, offset), LAMBDA len : offset + len[2] + len[1])

\* Some read of decodeAvroTags runs past the end of the region.  The walk
\* follows the decoder: left pairs remain in the current block; it stops
\* after fuel pairs.
RECURSIVE overruns(_, _, _, _)
overruns(buf, offset, left, fuel) ==
    IF fuel = 0 THEN FALSE
    ELSE IF left > 0
    THEN \/ bytesOverrun(buf, offset)
         \/ bytesOverrun(buf, afterBytes(buf, offset))
         \/ overruns(buf, afterBytes(buf, afterBytes(buf, offset)), left - 1, fuel - 1)
    ELSE IF offset < Len(buf)
    THEN Bind(readBlock(buf, offset), LAMBDA block :
             \/ block.next > Len(buf)
             \/ block.count # 0 /\ overruns(buf, block.next, abs32(block.count), fuel))
    ELSE FALSE

\* C16: a read of a long or of length-prefixed bytes that runs past the end
\* of the tag region fails the decode: no item is returned for such a region.
C16_UnderflowFails ==
    decoded /\ headerRead(pin) /\ declaredTagLength(pin) > 0
            /\ overruns(tagRegion(pin), 0, 0, MaxTags)
        => pout[1].outcome # "ok"

\* The length-prefixed bytes at offset
bytesAt(buf, offset) ==
    Bind(readZigzagVarint(buf, offset), LAMBDA len :
        subarray(buf, offset + len[2], offset + len[2] + len[1]))

\* The names and values of the region as bytes, in the decoder's order
RECURSIVE rawFields(_, _, _, _)
rawFields(buf, offset, left, fuel) ==
    IF fuel = 0 THEN <<>>
    ELSE IF left > 0
    THEN <<bytesAt(buf, offset), bytesAt(buf, afterBytes(buf, offset))>>
         \o rawFields(buf, afterBytes(buf, afterBytes(buf, offset)), left - 1, fuel - 1)
    ELSE IF offset < Len(buf)
    THEN Bind(readBlock(buf, offset), LAMBDA block :
             IF block.count = 0 THEN <<>>
             ELSE rawFields(buf, block.next, abs32(block.count), fuel))
    ELSE <<>>

\* The bytes are the UTF-8 form of some text
validUtf8(bytes) == strToUtf8(toStringUtf8(bytes)) = bytes

\* C17: a tag name or value that is not valid UTF-8 fails the decode, and
\* the text of every returned tag is the text of its bytes on the wire.
C17_TagsAreUtf8 ==
    decoded /\ headerRead(pin) /\ declaredTagLength(pin) > 0 =>
        Bind(rawFields(tagRegion(pin), 0, 0, MaxTags), LAMBDA raw :
            /\ (\E i \in 1..Len(raw) : ~validUtf8(raw[i])) => pout[1].outcome = "throw"
            /\ pout[1].outcome = "ok" =>
                  \A i \in 1..Len(pout[1].tags) :
                      /\ strToUtf8(pout[1].tags[i].name) = raw[2 * i - 1]
                      /\ strToUtf8(pout[1].tags[i].value) = raw[2 * i])
-----------------------------------------------------------------------------
(* The identifier and the signed message *)

\* The signature bytes of the buffer: offsets 2 to 514
signatureOnWire(buf) == SubSeq(buf, SIG_OFFSET + 1, SIG_OFFSET + SIG_LENGTH)

\* C18: the id of a decoded buffer is base64url(SHA-256(buffer[2..514))),
\* and the id in the index of a bundle of that buffer is the same hash as
\* 32 raw bytes.
C18_IdFromSignature ==
    decoded /\ pout[1].outcome = "ok" =>
        /\ pout[1].id = toStringBase64url(sha256(signatureOnWire(pin)))
        /\ SubSeq(assembleBundle(<<pin>>), 65, 96) = sha256(signatureOnWire(pin))

\* A buffer that carries the signature of IT_OK and differs from IT_OK
\* elsewhere was decoded, and got the id of IT_OK
C18_SameSignature ==
    /\ decoded /\ pout[1].outcome = "ok"
    /\ pin # wire(IT_OK)
    /\ signatureOnWire(pin) = signatureNo(1)
    /\ pout[1].id = parseDataItem(wire(IT_OK)).id

\* The message isValid() verifies for the decoded item p
verifiedMessage(p) ==
    dataItemMessage(p.ownerBytes, p.targetBytes, p.anchorBytes, p.tagBytes, p.rawData)

\* H(H("blob" || len) || H(bytes))
blobHash(bytes) ==
    sha384(sha384(strToUtf8(S_blob) \o strToUtf8(toStringInt(Len(bytes))))
           \o sha384(bytes))

\* The left fold over the first n children: acc = H(acc || deepHash(child)),
\* seeded with H("list" || N)
RECURSIVE listHash(_, _)
listHash(children, n) ==
    IF n = 0
    THEN sha384(strToUtf8(S_list) \o strToUtf8(toStringInt(Len(children))))
    ELSE sha384(listHash(children, n - 1) \o blobHash(children[n]))

\* The 32 bytes behind the flag at offset off when the flag is 1, else nothing
flaggedOnWire(buf, off) ==
    IF byteAt(buf, off) = 1 THEN SubSeq(buf, off + 2, off + 1 + FIELD_LENGTH)
    ELSE <<>>

\* The eight children taken from the buffer by their offsets
childrenOnWire(buf) ==
    << strToUtf8(S_dataitem), strToUtf8(S_1), strToUtf8(S_1),
       SubSeq(buf, OWNER_OFFSET + 1, OWNER_OFFSET + OWNER_LENGTH),
       flaggedOnWire(buf, FLAGS_START),
       flaggedOnWire(buf, anchorFlagOffset(buf)),
       SubSeq(buf, countOffset(buf) + 17, countOffset(buf) + 16 + declaredTagLength(buf)),
       SubSeq(buf, countOffset(buf) + 17 + declaredTagLength(buf), Len(buf)) >>

\* The buffer holds the tag region its header declares
regionComplete(buf) == Len(buf) >= countOffset(buf) + 16 + declaredTagLength(buf)

\* C19: the message isValid() verifies for a decoded buffer is the deep hash
\* of "dataitem", "1", "1", the owner at 514..1026, the 32 target bytes and
\* the 32 anchor bytes or nothing, the tag region of the declared length and
\* every byte after it.
C19_SignedMessage ==
    decoded /\ pout[1].outcome = "ok" =>
        /\ regionComplete(pin)
        /\ verifiedMessage(pout[1]) = listHash(childrenOnWire(pin), 8)

\* The same for the buffers that hold the tag region they declare
C19_CompleteBuffers ==
    decoded /\ pout[1].outcome = "ok" /\ regionComplete(pin) =>
        verifiedMessage(pout[1]) = listHash(childrenOnWire(pin), 8)
-----------------------------------------------------------------------------
(* The assembler on its own: assembleBundle called on lists of at most
   MaxBlobs byte strings, DataItems or not. *)

MaxBlobs == 3

\* Nothing, three bytes, one byte less than a signature type and signature,
\* exactly those 514 bytes, and two DataItems
Blobs ==
    {<<>>, <<1, 0, 7>>, SubSeq(wire(R_END), 1, SIG_OFFSET + SIG_LENGTH - 1),
     SubSeq(wire(R_END), 1, SIG_OFFSET + SIG_LENGTH), wire(R_END), wire(R_BOTH)}

AddBlob ==
    /\ aout = <<>> /\ Len(ain) < MaxBlobs
    /\ \E blob \in Blobs : ain' = Append(ain, blob)
    /\ UNCHANGED <<aout, reqNo, event, pc, handlerLocals, resp, queue, trail,
                   bundleVars, envVars, validateVars, parseVars,
                   callVars>>

Assemble ==
    /\ aout = <<>>
    /\ aout' = <<assembleBundle(ain)>>
    /\ UNCHANGED <<ain, reqNo, event, pc, handlerLocals, resp, queue, trail,
                   bundleVars, envVars, validateVars, parseVars,
                   callVars>>

InitAssemble ==
    /\ envApiKey = <<>> /\ envDryRun = <<>>
    /\ reqNo = 0
    /\ event = <<>>
    /\ pc = "idle"
    /\ buffer = <<>> /\ parsed = <<>> /\ valid = FALSE /\ validation = <<>>
    /\ resp = <<>>
    /\ queue = <<>>
    /\ trail = <<>>
    /\ bpc = "idle"
    /\ records = <<>> /\ dataItems = <<>> /\ tx = <<>>
    /\ cachedOwner = <<>> /\ cachedKeyArn = <<>>
    /\ kmsLog = <<>>
    /\ console = ""
    /\ posted = <<>>
    /\ vin = <<>> /\ vout = <<>> /\ edits = 0 /\ vbefore = <<>> /\ vedit = ""
    /\ pin = <<>> /\ pout = <<>> /\ pedits = 0
    /\ ain = <<>> /\ aout = <<>>
    /\ calls = <<>> /\ lastIndex = [p \in Patterns |-> 0]
    /\ ownerCalls = <<>>

NextAssemble ==
    \/ AddBlob
    \/ Assemble

SpecAssemble == InitAssemble /\ [][NextAssemble]_vars

\* The bundle of the list ain has been assembled
assembled == aout # <<>>

\* The sum of the lengths of the first n blobs
RECURSIVE sizeOfFirst(_, _)
sizeOfFirst(blobs, n) ==
    IF n = 0 THEN 0 ELSE sizeOfFirst(blobs, n - 1) + Len(blobs[n])

\* The length of the count and the index for n blobs
headerLength(n) == 32 + 64 * n

\* C20: the bundle of N blobs is 32 + 64 N + the sum of the blob lengths
\* long, and every blob lies after the count and the index, behind the blobs
\* before it.
C20_BundleLength ==
    assembled =>
        /\ Len(aout[1]) = 32 + 64 * Len(ain) + sizeOfFirst(ain, Len(ain))
        /\ \A i \in 1..Len(ain) :
              SubSeq(aout[1],
                     headerLength(Len(ain)) + sizeOfFirst(ain, i - 1) + 1,
                     headerLength(Len(ain)) + sizeOfFirst(ain, i)) = ain[i]

\* A bundle of three blobs, the second shorter than 514 bytes, the third empty
C20_ShortBlobs ==
    /\ assembled /\ Len(ain) = 3
    /\ Len(ain[1]) > 514 /\ Len(ain[2]) = 3 /\ ain[3] = <<>>
    /\ Len(aout[1]) = 32 + 192 + Len(ain[1]) + 3

\* The bundle of no blobs is the 32 bytes of the count
C20_NoBlobs == assembled /\ ain = <<>> /\ Len(aout[1]) = 32
-----------------------------------------------------------------------------
(* The bundle's header and payload *)

\* The number whose little-endian form the first n bytes are
RECURSIVE littleEndian(_, _)
littleEndian(bytes, n) ==
    IF n = 0 THEN 0 ELSE bytes[1] + 256 * littleEndian(Tail(bytes), n - 1)

\* A 32-byte field that holds the number in its low 8 bytes and zeros above
holdsNumber(field, number) ==
    /\ Len(field) = 32
    /\ \A k \in 5..32 : field[k] = 0
    /\ littleEndian(field, 4) = number

\* The 64 bytes of the index entry of the i-th blob, i from 0
entryOnWire(bundle, i) == SubSeq(bundle, 32 + 64 * i + 1, 32 + 64 * i + 64)

\* The bytes 2 to 514 of the blob, as far as it has them
signatureSlice(blob) ==
    SubSeq(blob, SIG_OFFSET + 1, Min(SIG_OFFSET + SIG_LENGTH, Len(blob)))

\* C21: the first 32 bytes of the bundle hold the number of blobs, and the
\* 64 bytes at 32 + 64 i hold the length of blob i, then the SHA-256 of its
\* bytes 2 to 514.
C21_Framing ==
    assembled =>
        /\ holdsNumber(SubSeq(aout[1], 1, 32), Len(ain))
        /\ \A i \in 0..(Len(ain) - 1) :
              /\ holdsNumber(SubSeq(entryOnWire(aout[1], i), 1, 32), Len(ain[i + 1]))
              /\ SubSeq(entryOnWire(aout[1], i), 33, 64)
                    = sha256(signatureSlice(ain[i + 1]))

\* A bundle of a DataItem of more than 255 bytes and a blob of three bytes
C21_TwoEntries ==
    /\ assembled /\ Len(ain) = 2
    /\ Len(ain[1]) > 1026 /\ Len(ain[2]) = 3
    /\ entryOnWire(aout[1], 1)[1] = 3

\* The first n blobs one after the other
RECURSIVE joined(_, _)
joined(blobs, n) == IF n = 0 THEN <<>> ELSE joined(blobs, n - 1) \o blobs[n]

\* The bytes of the bundle after the count and the index of n entries
payloadOnWire(bundle, n) == SubSeq(bundle, headerLength(n) + 1, Len(bundle))

\* C22: the bytes after the header are the blobs in their order, unchanged;
\* the i-th index entry holds the length of the i-th of them; and the call
\* leaves the list it was given as it was.
C22_OrderAndContent ==
    /\ [](assembled =>
            /\ payloadOnWire(aout[1], Len(ain)) = joined(ain, Len(ain))
            /\ \A i \in 1..Len(ain) :
                  littleEndian(entryOnWire(aout[1], i - 1), 4) = Len(ain[i]))
    /\ [][aout' # aout => ain' = ain]_vars

\* A bundle of two different blobs, the longer one first
C22_TwoDifferent ==
    /\ assembled /\ Len(ain) = 2
    /\ Len(ain[1]) > Len(ain[2]) /\ Len(ain[2]) > 0
-----------------------------------------------------------------------------
(* The SDK version and the notarization date *)

\* validateDataItem has answered for the arguments vin
called == vout # <<>>

\* The positions of the dots of a text
dotsOf(s) == {i \in 1..Len(s) : s[i] = 46}

\* MAJOR.MINOR.PATCH: two dots, digits elsewhere, no part empty
strictVersion(s) ==
    /\ Cardinality(dotsOf(s)) = 2
    /\ \A i \in (1..Len(s)) \ dotsOf(s) : s[i] \in 48..57
    /\ 1 \notin dotsOf(s) /\ Len(s) \notin dotsOf(s)
    /\ \A i \in dotsOf(s) : i + 1 \notin dotsOf(s)

\* The number a run of digits writes
RECURSIVE decimal(_)
decimal(digits) ==
    IF digits = <<>> THEN 0
    ELSE 10 * decimal(SubSeq(digits, 1, Len(digits) - 1)) + digits[Len(digits)] - 48

\* The three numbers of a strict version
componentsOf(s) ==
    LET d1 == CHOOSE i \in dotsOf(s) : \A j \in dotsOf(s) : i <= j
        d2 == CHOOSE i \in dotsOf(s) : \A j \in dotsOf(s) : i >= j
    IN  <<decimal(SubSeq(s, 1, d1 - 1)), decimal(SubSeq(s, d1 + 1, d2 - 1)),
          decimal(SubSeq(s, d2 + 1, Len(s)))>>

\* At least 0.2.0 in the order of versions: the first part that differs decides
atLeastMinimum(c) == c[1] > 0 \/ (c[1] = 0 /\ c[2] >= 2)

\* The arguments with version s in the SDK-Version tag and the sdk_version field
withVersion(v, s) ==
    [v EXCEPT !.tags = [i \in 1..Len(v.tags) |->
                           IF v.tags[i].name = S_SDKVersion
                           THEN [v.tags[i] EXCEPT !.value = s] ELSE v.tags[i]],
              !.members = [i \in 1..Len(v.members) |->
                           IF v.members[i].k = S_sdk_version
                           THEN [v.members[i] EXCEPT !.v = Str(s)] ELSE v.members[i]]]

\* The versions of the SDK-Version tags of the call
versions == tagValues(vin.tags, S_SDKVersion)

\* C23: an accepted call has one SDK-Version tag, a strict version of at
\* least 0.2.0 in the order of versions; and the arguments of a valid item
\* with a strict version below 0.2.0 in tag and body are rejected with the
\* below-minimum error.
C23_MinimumVersion ==
    called =>
        /\ vout[1].valid =>
              \E s \in versions :
                  versions = {s} /\ strictVersion(s) /\ atLeastMinimum(componentsOf(s))
        /\ \A s \in versions, ok \in {ARGS_OK, ARGS_OK2} :
              /\ strictVersion(s) /\ ~atLeastMinimum(componentsOf(s))
              /\ vin = withVersion(ok, s)
              => vout[1] = fail("SDK-Version is below minimum")

\* Version 0.1.9 in tag and body, rejected as below the minimum
C23_Version019 ==
    /\ called /\ vin = withVersion(ARGS_OK, SDK_019)
    /\ vout[1] = fail("SDK-Version is below minimum")

\* Version 0.10.0 in tag and body, accepted
C23_Version0100 ==
    called /\ vin = withVersion(ARGS_OK, SDK_0100) /\ vout[1].valid

\* The tags with the values at and date in the Notarized-At and
\* Notarized-Date-UTC tags
withDates(tags, at, date) ==
    [i \in 1..Len(tags) |->
        IF tags[i].name = S_NotarizedAt THEN [tags[i] EXCEPT !.value = at]
        ELSE IF tags[i].name = S_NotarizedDateUTC THEN [tags[i] EXCEPT !.value = date]
        ELSE tags[i]]

\* The first ten characters of a text
firstTen(s) == [i \in 1..(IF Len(s) < 10 THEN Len(s) ELSE 10) |-> s[i]]

\* C24: an accepted call has a Notarized-Date-UTC tag equal to the first ten
\* characters of its Notarized-At tag; and the tags of a valid item with a
\* well-formed timestamp and a well-formed date that differs from its first
\* ten characters are rejected with the date mismatch error.
C24_DateOfTimestamp ==
    called =>
        /\ vout[1].valid =>
              \E at \in tagValues(vin.tags, S_NotarizedAt) :
                  tagValues(vin.tags, S_NotarizedDateUTC) = {firstTen(at)}
        /\ \A at \in tagValues(vin.tags, S_NotarizedAt),
              date \in tagValues(vin.tags, S_NotarizedDateUTC),
              ok \in {ARGS_OK, ARGS_OK2} :
              /\ ISO8601(at) /\ DATE_UTC(date) /\ date # firstTen(at)
              /\ vin.tags = withDates(ok.tags, at, date)
              /\ [vin EXCEPT !.tags = ok.tags, !.members = ok.members, !.raw = <<>>] = ok
              => vout[1] = fail("Notarized-Date-UTC does not match date in Notarized-At")

\* A valid item of 2 June whose date tag was set to 1 June, rejected with
\* the date mismatch error
C24_DayBefore ==
    /\ called /\ vin.tags = withDates(ARGS_OK2.tags, AT_Z, DATE_A)
    /\ vout[1] = fail("Notarized-Date-UTC does not match date in Notarized-At")
-----------------------------------------------------------------------------
(* The bundle handler: submission and signing *)

\* The handler returns for a bundle that was signed
returnsSigned == bpc = "signed" /\ bpc' = "idle"

\* C25: with DRY_RUN "true" nothing is ever posted to the gateway, and
\* without it the handler posts every bundle it has signed before it returns.
C25_PostUnlessDryRun ==
    /\ [](configDryRun => posted = <<>>)
    /\ [][returnsSigned /\ ~configDryRun => Len(posted') = Len(posted) + 1]_vars

\* Nothing is posted, whatever DRY_RUN is
C25_NeverPosted == posted = <<>>

\* The two tags of a bundle transaction
BundleTags == << Tag("Bundle-Format", "binary"), Tag("Bundle-Version", "2.0.0") >>

\* The last request KMS signed
lastSigned == kmsLog[Len(kmsLog)]

\* C27: the two bundle tags are on the transaction before signTransaction
\* starts; the owner is set before the signature data is taken; KMS signs
\* exactly the signature data of the transaction; the signature is set once,
\* after that, with the id base64url(SHA-256(signature)) and the owner that
\* was set; and it is not set when the modulus or the signature fails.
C27_SigningSequence ==
    /\ [](/\ bpc \in {"owner", "sign", "signed"} => tx # <<>> /\ tx[1].tags = BundleTags
          /\ bpc \in {"sign", "signed"} =>
                tx[1].owner = toStringBase64url(kmsModulus(KMS_KEY_ARN))
          /\ bpc = "signed" =>
                /\ kmsLog # <<>>
                /\ lastSigned.message = getSignatureData(tx[1])
                /\ tx[1].signature = toStringBase64url(lastSigned.signature)
                /\ tx[1].id = toStringBase64url(sha256(lastSigned.signature))
          /\ bpc \in {"owner", "sign", "failed"} /\ tx # <<>> =>
                tx[1].signature = <<>> /\ tx[1].id = <<>>)
    /\ [][/\ bpc = "sign" /\ bpc' = "signed" =>
                /\ Len(kmsLog') = Len(kmsLog) + 1
                /\ lastSigned'.message = getSignatureData(tx[1])
                /\ tx'[1].owner = tx[1].owner
          /\ bpc # "sign" => kmsLog' = kmsLog
          /\ tx # <<>> /\ tx[1].signature # <<>> /\ tx' # <<>> => tx' = tx]_vars

\* A second bundle was signed, with the modulus taken from the cache
C27_SecondBundleSigned ==
    /\ bpc = "signed" /\ Len(kmsLog) = 2
    /\ tx[1].id = toStringBase64url(sha256(kmsSignature(2)))

\* The signing of a bundle failed after its owner was set
C27_SigningFailed ==
    bpc = "failed" /\ tx # <<>> /\ tx[1].owner # <<>> /\ tx[1].signature = <<>>
-----------------------------------------------------------------------------
(* The three library functions called one after the other.  validate.ts keeps
   its patterns as RegExp objects of the module, which carry a lastIndex from
   one test to the next; data-item.ts and assemble-bundle.ts have no binding
   that a call writes. *)

MaxCalls == 3

\* A pattern.test call of validateDataItem: the RegExp object, the place of
\* its rule in the order of the checks, whether the guard before it lets the
\* test run (!tag ||, typeof x !== "string" ||), and the subject's length
tagTest(pattern, rule, tag) ==
    [pattern |-> pattern, rule |-> rule,
     executed |-> tag # <<>> /\ tag[1] # <<>>,
     length |-> IF tag = <<>> THEN 0 ELSE Len(tag[1])]

fieldTest(pattern, rule, x) ==
    [pattern |-> pattern, rule |-> rule,
     executed |-> x # <<>> /\ x[1].t = "string",
     length |-> IF x # <<>> /\ x[1].t = "string" THEN Len(x[1].s) ELSE 0]

\* The tests of the tags, lines 113 to 143
tagTests(tags) ==
    << tagTest("SHA256_HEX", 9, tagMapGet(tags, S_Hash)),
       tagTest("SHA256_HEX", 10, tagMapGet(tags, S_Namespace)),
       tagTest("UUID", 11, tagMapGet(tags, S_SessionID)),
       tagTest("NON_NEGATIVE_INT", 12, tagMapGet(tags, S_Sequence)),
       tagTest("ISO8601", 13, tagMapGet(tags, S_NotarizedAt)),
       tagTest("DATE_UTC", 14, tagMapGet(tags, S_NotarizedDateUTC)),
       tagTest("SEMVER", 15, tagMapGet(tags, S_SDKVersion)) >>

\* The tests of the body fields, lines 180 to 192
fieldTests(obj) ==
    << fieldTest("SHA256_HEX", 21, getField(obj, S_hash)),
       fieldTest("SHA256_HEX", 22, getField(obj, S_namespace)),
       fieldTest("ISO8601", 23, getField(obj, S_notarized_at)),
       fieldTest("SEMVER", 24, getField(obj, S_sdk_version)) >>

\* The place in the order of the checks where a result was returned: the
\* place of its error, and one past the last check for a valid result
stopOf(result) ==
    IF result.valid THEN Len(RuleErrors) + 1
    ELSE CHOOSE k \in 1..Len(RuleErrors) : RuleErrors[k] = result.error

\* The tests from the k-th on, run with the lastIndex values index, for a
\* call whose checks with every lastIndex at 0 stop at place stop: the place
\* of the test that fails because of its lastIndex (0 if none does), and the
\* lastIndex values left behind.  A test before stop matches its subject from
\* the start; the test at stop does not run or does not match.
RECURSIVE runTests(_, _, _, _)
runTests(tests, k, index, stop) ==
    IF k > Len(tests) \/ stop < tests[k].rule \/ ~tests[k].executed
    THEN [failedAt |-> 0, lastIndex |-> index]
    ELSE Bind(RegExpTest(flagsOf(tests[k].pattern), index[tests[k].pattern],
                         tests[k].length, stop > tests[k].rule), LAMBDA t :
         Bind([index EXCEPT ![tests[k].pattern] = t.lastIndex], LAMBDA after :
             IF t.result THEN runTests(tests, k + 1, after, stop)
             ELSE [failedAt |-> tests[k].rule, lastIndex |-> after]))

\* validateDataItem called when the lastIndex values of the module's patterns
\* are index: its result and the values it leaves behind
validateDataItemAt(index, signatureType, tags, rawData, totalSize, target, anchor) ==
    Bind(validateDataItem(signatureType, tags, rawData, totalSize, target, anchor),
         LAMBDA result :
    Bind(stopOf(result), LAMBDA stop :
    Bind(IF stop < 9 THEN <<>>
         ELSE IF stop < 21 THEN tagTests(tags)
         ELSE tagTests(tags) \o fieldTests(JSONparse(toStringUtf8(rawData)).val),
         LAMBDA tests :
    Bind(runTests(tests, 1, index, stop), LAMBDA run :
        [result    |-> IF run.failedAt = 0 THEN result
                       ELSE fail(RuleErrors[run.failedAt]),
         lastIndex |-> run.lastIndex]))))

\* The arguments of the calls: of validateDataItem, parseDataItem and
\* assembleBundle
ValidateArguments ==
    {ARGS_OK, ARGS_OK2, withVersion(ARGS_OK, SDK_019),
     [ARGS_OK EXCEPT !.tags = withDates(ARGS_OK.tags, AT_A, DATE_B)]}

ParseArguments == {wire(IT_OK), wire(R_BAD_UTF8), wire(R_NEGATIVE), R_TYPE}

AssembleArguments == {<<>>, <<wire(R_END)>>, <<wire(R_END), <<1, 0, 7>>>>}

\* A call in the log: the function, its arguments before and after the call,
\* and what it returned or threw
Called(fn, before, after, outcome) ==
    [fn |-> fn, before |-> before, after |-> after, outcome |-> outcome]

\* validateDataItem(...): reads its arguments, tests the patterns
CallValidateDataItem ==
    /\ Len(calls) < MaxCalls
    /\ \E v \in ValidateArguments :
          \E r \in {validateDataItemAt(lastIndex, v.signatureType, v.tags, rawDataOf(v),
                                       v.totalSize, v.target, v.anchor)} :
              /\ calls' = Append(calls, Called("validateDataItem", v, v, r.result))
              /\ lastIndex' = r.lastIndex
    /\ UNCHANGED <<ownerCalls, reqNo, event, pc, handlerLocals, resp, queue, trail,
                   bundleVars, envVars, validateVars, parseVars, assembleVars>>

\* parseDataItem(buffer): reads the buffer through subarray views
CallParseDataItem ==
    /\ Len(calls) < MaxCalls
    /\ \E b \in ParseArguments :
          calls' = Append(calls, Called("parseDataItem", b, b, parseDataItem(b)))
    /\ UNCHANGED <<lastIndex, ownerCalls, reqNo, event, pc, handlerLocals, resp, queue, trail,
                   bundleVars, envVars, validateVars, parseVars, assembleVars>>

\* assembleBundle(dataItems): reads the items and copies them into a new buffer
CallAssembleBundle ==
    /\ Len(calls) < MaxCalls
    /\ \E items \in AssembleArguments :
          calls' = Append(calls, Called("assembleBundle", items, items,
                                        assembleBundle(items)))
    /\ UNCHANGED <<lastIndex, ownerCalls, reqNo, event, pc, handlerLocals, resp, queue, trail,
                   bundleVars, envVars, validateVars, parseVars, assembleVars>>

NextCalls ==
    \/ CallValidateDataItem
    \/ CallParseDataItem
    \/ CallAssembleBundle

SpecCalls == InitAssemble /\ [][NextCalls]_vars

\* C26: two calls of the same function with equal arguments have equal
\* outcomes, whatever was called before and between them, every call
\* leaves its arguments as they were, and no pattern of the module keeps a
\* position from one call to the next.
C26_NoStateBetweenCalls ==
    /\ \A i, j \in 1..Len(calls) :
          calls[i].fn = calls[j].fn /\ calls[i].before = calls[j].before
              => calls[i].outcome = calls[j].outcome
    /\ \A i \in 1..Len(calls) : calls[i].after = calls[i].before
    /\ \A p \in Patterns : lastIndex[p] = 0

\* An accepted item validated twice, with a rejected one between
C26_SameCallTwice ==
    /\ Len(calls) = 3
    /\ calls[1].fn = "validateDataItem" /\ calls[1].before = ARGS_OK
    /\ calls[1].outcome.valid
    /\ calls[2].fn = "validateDataItem" /\ ~calls[2].outcome.valid
    /\ calls[3] = calls[1]
-----------------------------------------------------------------------------
(* readZigzagVarint on its own: called at offset 0 of the encoding of an Avro
   long, built group by group, low group first *)

MaxVarintBytes == 10

\* The 7-bit groups an encoding may hold at its p-th byte: all zeros and all
\* ones everywhere, small numbers in the first byte, the values around bit 32
\* in the fifth, and the one bit that a 64-bit number has in the tenth
GroupsAt(p) ==
    IF p = 1 THEN {0, 1, 2, 3, 127}
    ELSE IF p = 5 THEN {0, 7, 8, 15, 16, 127}
    ELSE IF p = 10 THEN {0, 1}
    ELSE {0, 127}

\* One more byte: the last byte so far gets the continuation bit
AppendGroup ==
    /\ pout = <<>> /\ Len(pin) < MaxVarintBytes
    /\ \E g \in GroupsAt(Len(pin) + 1) :
          pin' = (IF pin = <<>> THEN <<>>
                  ELSE [pin EXCEPT ![Len(pin)] = pin[Len(pin)] + 128]) \o <<g>>
    /\ UNCHANGED <<pout, pedits, reqNo, event, pc, handlerLocals, resp, queue, trail,
                   bundleVars, envVars, validateVars, assembleVars, callVars>>

CallReadZigzagVarint ==
    /\ pin # <<>> /\ pout = <<>>
    /\ pout' = <<readZigzagVarint(pin, 0)>>
    /\ UNCHANGED <<pin, pedits, reqNo, event, pc, handlerLocals, resp, queue, trail,
                   bundleVars, envVars, validateVars, assembleVars, callVars>>

NextVarint ==
    \/ AppendGroup
    \/ CallReadZigzagVarint

SpecVarint == InitAssemble /\ [][NextVarint]_vars

\* The p-th 7-bit group of an encoding, 0 beyond its end
groupAt(enc, p) == IF p <= Len(enc) THEN enc[p] % 128 ELSE 0

\* The unsigned number of the encoding is below 2^32, so that its zig-zag
\* decoding lies between -2^31 and 2^31 - 1
within32Bits(enc) ==
    /\ groupAt(enc, 5) < 16
    /\ \A p \in 6..Len(enc) : groupAt(enc, p) = 0

\* Half of the unsigned number of such an encoding, rounded down
halfOf(enc) ==
    (groupAt(enc, 1) \div 2) + 64 * groupAt(enc, 2) + 8192 * groupAt(enc, 3)
    + 1048576 * groupAt(enc, 4) + 134217728 * groupAt(enc, 5)

\* The long such an encoding stands for: n / 2 for an even n, -(n + 1) / 2
\* for an odd one
longOf(enc) ==
    IF groupAt(enc, 1) % 2 = 0 THEN halfOf(enc) ELSE (0 - halfOf(enc)) - 1

\* C28: for every encoding of 1 to 10 bytes readZigzagVarint returns the long
\* the encoding stands for and the number of its bytes.  A long outside
\* -2^31 .. 2^31 - 1 is none of the 32-bit numbers the function returns.
C28_ExactDecoding ==
    decoded /\ Len(pin) <= 10 =>
        /\ within32Bits(pin)
        /\ pout[1] = <<longOf(pin), Len(pin)>>

\* The same for the encodings of the longs between -2^31 and 2^31 - 1
C28_Within32Bits ==
    decoded /\ Len(pin) <= 10 /\ within32Bits(pin) =>
        pout[1] = <<longOf(pin), Len(pin)>>

\* The number of bytes read is the length of the encoding
C28_BytesConsumed == decoded /\ Len(pin) <= 10 => pout[1][2] = Len(pin)

-----------------------------------------------------------------------------
(* The end of the tag decoding *)

\* The decoder read a tag region
regionDecoded == decoded /\ headerRead(pin) /\ declaredTagLength(pin) > 0

\* Some iteration of the pair loop ends at an offset that is not beyond the
\* one it began at.  The walk follows the decoder: left pairs remain in the
\* current block; it stops after fuel pairs.
RECURSIVE standsStill(_, _, _, _)
standsStill(buf, offset, left, fuel) ==
    IF fuel = 0 THEN FALSE
    ELSE IF left > 0
    THEN Bind(readPair(buf, offset).next, LAMBDA next :
             \/ next <= offset
             \/ standsStill(buf, next, left - 1, fuel - 1))
    ELSE IF offset < Len(buf)
    THEN Bind(readBlock(buf, offset), LAMBDA block :
             block.count # 0 /\ standsStill(buf, block.next, abs32(block.count), fuel))
    ELSE FALSE

\* The outer loop begins an iteration at an offset at which it has begun one
\* before (seen): offset is all that the next iteration reads, so the loop
\* repeats from there without end
RECURSIVE comesBack(_, _, _, _, _)
comesBack(buf, offset, left, seen, fuel) ==
    IF fuel = 0 THEN FALSE
    ELSE IF left > 0
    THEN comesBack(buf, readPair(buf, offset).next, left - 1, seen, fuel - 1)
    ELSE IF offset < Len(buf)
    THEN \/ offset \in seen
         \/ Bind(readBlock(buf, offset), LAMBDA block :
                block.count # 0
                /\ comesBack(buf, block.next, abs32(block.count),
                             seen \cup {offset}, fuel))
    ELSE FALSE

\* The decoding of the region comes to no end
endless == regionDecoded /\ comesBack(tagRegion(pin), 0, 0, {}, MaxTags)

\* C29: parseDataItem comes to an end on every buffer, with an item or an
\* error: the loops of decodeAvroTags do not repeat, every iteration of the
\* pair loop leaves the offset beyond where it began, and a region yields at
\* most as many tags as it has bytes.
C29_Terminates ==
    /\ ~endless
    /\ regionDecoded =>
          /\ ~standsStill(tagRegion(pin), 0, 0, MaxTags)
          /\ pout[1].outcome = "ok" => Len(pout[1].tags) <= Len(tagRegion(pin))

\* A region whose reads stay inside it and whose pairs each end beyond
\* where they began is decoded to an end
C29_WellFormedRegions ==
    regionDecoded /\ ~overruns(tagRegion(pin), 0, 0, MaxTags)
                  /\ ~standsStill(tagRegion(pin), 0, 0, MaxTags)
        => pout[1].outcome # "exhausted"

\* A region whose decoding repeats: no item and no error comes of it
C29_Repeats == endless /\ pout[1].outcome = "exhausted"

\* A region decoded to more tags than it has bytes
C29_MoreTagsThanBytes ==
    regionDecoded /\ pout[1].outcome = "ok" /\ Len(pout[1].tags) > Len(tagRegion(pin))

\* A repeating decode is one that gives neither an item nor an error
C29_EndlessIsExhausted == endless => pout[1].outcome = "exhausted"

-----------------------------------------------------------------------------
(* getOwnerModulus (lib/kms-signer.ts) called several times, the calls
   running side by side: each call runs up to its await of KMS in one step
   and from the answer to its end in another *)

MaxOwnerCalls == 3

\* A call of getOwnerModulus: the key it was asked for, where it stands
\* ("awaiting" the answer of KMS, "returned" or "thrown"), whether it sent a
\* GetPublicKey request, and the buffer it returned
OwnerCall(kmsKeyArn, at, requested, result) ==
    [kmsKeyArn |-> kmsKeyArn, at |-> at, requested |-> requested, result |-> result]

\* getOwnerModulus(kmsKeyArn) up to its first await: the cached modulus is
\* returned at once, otherwise the request is sent
GetOwnerModulusCall ==
    /\ Len(ownerCalls) < MaxOwnerCalls
    /\ \E kmsKeyArn \in KeyArns :
          ownerCalls' = Append(ownerCalls,
              IF cacheHit(cachedOwner, cachedKeyArn, kmsKeyArn)
              THEN OwnerCall(kmsKeyArn, "returned", FALSE, cachedOwner)
              ELSE OwnerCall(kmsKeyArn, "awaiting", TRUE, <<>>))
    /\ UNCHANGED <<cachedOwner, cachedKeyArn, verifyVars, queue, bpc, records,
                   dataItems, tx, kmsLog, console, posted, envVars, validateVars,
                   parseVars, assembleVars, calls, lastIndex>>

\* KMS answers with the public key: the modulus and the key are cached and
\* the modulus is returned
GetOwnerModulusResume ==
    /\ \E i \in 1..Len(ownerCalls) :
          /\ ownerCalls[i].at = "awaiting"
          /\ cachedOwner' = <<kmsModulus(ownerCalls[i].kmsKeyArn)>>
          /\ cachedKeyArn' = <<ownerCalls[i].kmsKeyArn>>
          /\ ownerCalls' = [ownerCalls EXCEPT ![i].at = "returned",
                                              ![i].result = cachedOwner']
    /\ UNCHANGED <<verifyVars, queue, bpc, records, dataItems, tx, kmsLog, console,
                   posted, envVars, validateVars, parseVars, assembleVars, calls,
                   lastIndex>>

\* The request is rejected, or the answer has no public key, or the key gives
\* no modulus: the call throws
GetOwnerModulusThrow ==
    /\ \E i \in 1..Len(ownerCalls) :
          /\ ownerCalls[i].at = "awaiting"
          /\ ownerCalls' = [ownerCalls EXCEPT ![i].at = "thrown"]
    /\ UNCHANGED <<cachedOwner, cachedKeyArn, verifyVars, queue, bpc, records,
                   dataItems, tx, kmsLog, console, posted, envVars, validateVars,
                   parseVars, assembleVars, calls, lastIndex>>

NextCache ==
    \/ GetOwnerModulusCall
    \/ GetOwnerModulusResume
    \/ GetOwnerModulusThrow

SpecCache == InitAssemble /\ [][NextCache]_vars

\* The step begins a call for the key whose modulus is cached
callsCachedKey ==
    /\ Len(ownerCalls') = Len(ownerCalls) + 1
    /\ cachedOwner # <<>>
    /\ cachedKeyArn = <<ownerCalls'[Len(ownerCalls')].kmsKeyArn>>

\* The step ends a call with an error
throwsInStep ==
    \E i \in 1..Len(ownerCalls) :
        ownerCalls[i].at # "thrown" /\ ownerCalls'[i].at = "thrown"

\* C30: whatever the order in which calls of getOwnerModulus for the same or
\* different keys begin and end, a cached modulus is the modulus of the cached
\* key, a call that has returned has returned the modulus of the key it was
\* asked for, a call for the key that is cached sends no request to KMS, and
\* a call that throws leaves the cache as it was.
C30_ModulusCache ==
    /\ [](/\ cachedOwner # <<>> =>
                /\ cachedKeyArn # <<>>
                /\ cachedOwner[1] = kmsModulus(cachedKeyArn[1])
          /\ \A i \in 1..Len(ownerCalls) :
                ownerCalls[i].at = "returned" =>
                    ownerCalls[i].result = <<kmsModulus(ownerCalls[i].kmsKeyArn)>>)
    /\ [][/\ callsCachedKey =>
                /\ ownerCalls'[Len(ownerCalls')].at = "returned"
                /\ ~ownerCalls'[Len(ownerCalls')].requested
          /\ throwsInStep =>
                /\ cachedOwner' = cachedOwner
                /\ cachedKeyArn' = cachedKeyArn]_vars

\* Two calls for different keys that both awaited KMS, the answer to the
\* earlier call coming last, and a third call that has thrown
C30_AnswersOutOfOrder ==
    \E i, j, k \in 1..Len(ownerCalls) :
        /\ i < j
        /\ ownerCalls[i].kmsKeyArn # ownerCalls[j].kmsKeyArn
        /\ ownerCalls[i].requested /\ ownerCalls[j].requested
        /\ ownerCalls[i].at = "returned" /\ ownerCalls[j].at = "returned"
        /\ cachedKeyArn = <<ownerCalls[i].kmsKeyArn>>
        /\ ownerCalls[k].at = "thrown"

\* A call that found its key cached and sent no request
C30_ServedFromCache ==
    \E i \in 1..Len(ownerCalls) :
        ownerCalls[i].at = "returned" /\ ~ownerCalls[i].requested
====
